---- MODULE Spec2Model ----
(***************************************************************************)
(* Evidence-extraction engine of PolicyAnalizerLLM (src/rules.py) and its  *)
(* caller (src/main.py): the declared pattern catalog, its compilation at  *)
(* module load, scan_text, _safe_snippet and evidence_by_checklist.        *)
(*                                                                         *)
(* A text is a tuple of characters; a character is a one-character string, *)
(* or "uXXXX" for the code point U+XXXX outside ASCII.  Offsets are        *)
(* 0-based as in Python: the character at offset i is text[i + 1].         *)
(***************************************************************************)
EXTENDS Integers, Sequences, FiniteSets, TLC

(***************************************************************************)
(* Characters.  The texts of the model are written over Chars; the ranges  *)
(* of the catalog's character classes are the known characters they hold.  *)
(***************************************************************************)
\* [a-z], [A-Z], [0-9], [\u00C0-\u00D6], [\u00D8-\u00F6], [\u00F8-\u00FF]
Range_a_z ==
    {"a", "b", "c", "d", "e", "f", "g", "h", "i", "j", "k", "l", "m",
     "n", "o", "p", "q", "r", "s", "t", "u", "v", "w", "x", "y", "z"}
Range_A_Z ==
    {"A", "B", "C", "D", "E", "F", "G", "H", "I", "J", "K", "L", "M",
     "N", "O", "P", "Q", "R", "S", "T", "U", "V", "W", "X", "Y", "Z"}
Range_0_9 == {"0", "1", "2", "3", "4", "5", "6", "7", "8", "9"}
Range_u00C0_u00D6 == {"u00C0", "u00D6"}
Range_u00D8_u00F6 == {"u00D8", "u00E0", "u00F6"}
Range_u00F8_u00FF == {"u00F8", "u00FF"}

UpperChars == Range_A_Z \cup {"u00C0", "u00D6", "u00D8"}
LowerChars == Range_a_z \cup {"u00E0", "u00F6", "u00F8", "u00FF"}

\* \d, \s and \w of a str pattern (the Unicode classes), over the known characters
DIGIT == Range_0_9
SPACE == {" ", "\t", "\n", "\r", "\f", "u00A0"}
WORD == UpperChars \cup LowerChars \cup DIGIT \cup {"_"}

Punctuation == {"%", "'", "(", ")", "+", ",", "-", ".", "/", "@"}
Chars == WORD \cup SPACE \cup Punctuation

\* str.lower() and str.upper() of one character
ToLower ==
    [A |-> "a", B |-> "b", C |-> "c", D |-> "d", E |-> "e", F |-> "f", G |-> "g", H |-> "h", I |-> "i",
     J |-> "j", K |-> "k", L |-> "l", M |-> "m", N |-> "n", O |-> "o", P |-> "p", Q |-> "q", R |-> "r",
     S |-> "s", T |-> "t", U |-> "u", V |-> "v", W |-> "w", X |-> "x", Y |-> "y", Z |-> "z",
     u00C0 |-> "u00E0", u00D6 |-> "u00F6", u00D8 |-> "u00F8"]
ToUpper ==
    [a |-> "A", b |-> "B", c |-> "C", d |-> "D", e |-> "E", f |-> "F", g |-> "G", h |-> "H", i |-> "I",
     j |-> "J", k |-> "K", l |-> "L", m |-> "M", n |-> "N", o |-> "O", p |-> "P", q |-> "Q", r |-> "R",
     s |-> "S", t |-> "T", u |-> "U", v |-> "V", w |-> "W", x |-> "X", y |-> "Y", z |-> "Z",
     u00E0 |-> "u00C0", u00F6 |-> "u00D6", u00F8 |-> "u00D8"]
lower(c) == IF c \in UpperChars THEN ToLower[c] ELSE c
upper(c) == IF c \in DOMAIN ToUpper THEN ToUpper[c] ELSE c

(***************************************************************************)
(* Regular expressions.  A pattern is the parse tree re.compile builds     *)
(* from the declared expression under IGNORECASE | MULTILINE; the catalog  *)
(* uses literals, character classes, ".", "\b", concatenation,             *)
(* alternation and greedy or lazy bounded/unbounded repetition.  Groups    *)
(* capture nothing a scan reads, so a group is its body.                   *)
(***************************************************************************)
Str(s) == [op |-> "str", s |-> s]
In(set) == [op |-> "in", set |-> set]
Dot == [op |-> "any"]
Bnd == [op |-> "bnd"]
Cat(items) == [op |-> "cat", items |-> items]
Alt(items) == [op |-> "alt", items |-> items]
Rep(min, max, body) ==
    [op |-> "rep", min |-> min, max |-> max, bounded |-> TRUE, greedy |-> TRUE, body |-> body]
RepFrom(min, body) ==
    [op |-> "rep", min |-> min, max |-> min, bounded |-> FALSE, greedy |-> TRUE, body |-> body]
Lazy(rep) == [rep EXCEPT !.greedy = FALSE]
\* what stands for an expression the parser of re.compile rejects (re.error)
Malformed == [op |-> "error"]

\* character c against a class under IGNORECASE: either case of c is in the set
InClass(c, set) == c \in set \/ lower(c) \in set \/ upper(c) \in set

IsWordAt(text, i) == i >= 0 /\ i < Len(text) /\ text[i + 1] \in WORD
\* \b: exactly one of the characters before and after offset i is a word character
AtBoundary(text, i) == IsWordAt(text, i - 1) # IsWordAt(text, i)

RECURSIVE Ends(_, _, _)
RECURSIVE CatEnds(_, _, _, _)
RECURSIVE AltEnds(_, _, _, _)
RECURSIVE RepEnds(_, _, _, _)
RECURSIVE EachEnd(_, _, _, _, _)
RECURSIVE FromEach(_, _, _, _)

\* the body of a repetition once more from each end in from[k..], in order
EachEnd(re, text, from, k, count) ==
    IF k > Len(from) THEN <<>>
    ELSE RepEnds(re, text, from[k], count) \o EachEnd(re, text, from, k + 1, count)

\* repetition having matched its body `count` times up to offset i
RepEnds(re, text, i, count) ==
    LET stop == IF count >= re.min THEN <<i>> ELSE <<>>
        next == IF re.bounded /\ count >= re.max THEN <<>>
                ELSE SelectSeq(Ends(re.body, text, i), LAMBDA e : e > i)
        more == EachEnd(re, text, next, 1, count + 1)
    IN  IF re.greedy THEN more \o stop ELSE stop \o more

\* re from each offset in from[k..], in order
FromEach(re, text, from, k) ==
    IF k > Len(from) THEN <<>>
    ELSE Ends(re, text, from[k]) \o FromEach(re, text, from, k + 1)

\* items[k..] in sequence from each offset of `from`, in order
CatEnds(items, k, text, from) ==
    IF k > Len(items) \/ from = <<>> THEN from
    ELSE CatEnds(items, k + 1, text, FromEach(items[k], text, from, 1))

\* the alternatives items[k..] from offset i, leftmost alternative first
AltEnds(items, k, text, i) ==
    IF k > Len(items) THEN <<>>
    ELSE Ends(items[k], text, i) \o AltEnds(items, k + 1, text, i)

\* The offsets at which a match of re that starts at offset i can end, in the
\* order the backtracking matcher tries them: the head is the match it reports.
Ends(re, text, i) ==
    CASE re.op = "str" ->
            IF i + Len(re.s) <= Len(text)
               /\ \A k \in 1..Len(re.s) : lower(text[i + k]) = re.s[k]
            THEN <<i + Len(re.s)>> ELSE <<>>
      [] re.op = "in" ->
            IF i < Len(text) /\ InClass(text[i + 1], re.set) THEN <<i + 1>> ELSE <<>>
      [] re.op = "any" ->
            IF i < Len(text) /\ text[i + 1] # "\n" THEN <<i + 1>> ELSE <<>>
      [] re.op = "bnd" -> IF AtBoundary(text, i) THEN <<i>> ELSE <<>>
      [] re.op = "cat" -> CatEnds(re.items, 1, text, <<i>>)
      [] re.op = "alt" -> AltEnds(re.items, 1, text, i)
      [] re.op = "rep" -> RepEnds(re, text, i, 0)

NoMatch == <<>>

\* whether re can match the empty string, and the characters a non-empty match of
\* re can start with: what the compiler records for the search loop (the INFO
\* block of a compiled pattern), so that search skips offsets no match starts at
RECURSIVE Nullable(_)
RECURSIVE FirstChars(_)
RECURSIVE CatFirst(_, _)
Nullable(re) ==
    CASE re.op = "bnd" -> TRUE
      [] re.op = "cat" -> \A k \in 1..Len(re.items) : Nullable(re.items[k])
      [] re.op = "alt" -> \E k \in 1..Len(re.items) : Nullable(re.items[k])
      [] re.op = "rep" -> re.min = 0 \/ Nullable(re.body)
      [] re.op = "str" -> re.s = <<>>
      [] OTHER -> FALSE
CatFirst(items, k) ==
    IF k > Len(items) THEN {}
    ELSE FirstChars(items[k]) \cup (IF Nullable(items[k]) THEN CatFirst(items, k + 1) ELSE {})
FirstChars(re) ==
    CASE re.op = "str" -> IF re.s = <<>> THEN {} ELSE {c \in Chars : lower(c) = re.s[1]}
      [] re.op = "in" -> {c \in Chars : InClass(c, re.set)}
      [] re.op = "any" -> Chars \ {"\n"}
      [] re.op = "bnd" -> {}
      [] re.op = "cat" -> CatFirst(re.items, 1)
      [] re.op = "alt" -> UNION {FirstChars(re.items[k]) : k \in 1..Len(re.items)}
      [] re.op = "rep" -> FirstChars(re.body)

\* re.compile(regex, IGNORECASE | MULTILINE) of a well-formed expression
re_compile(regex) ==
    [re |-> regex, nullable |-> Nullable(regex), first |-> FirstChars(regex)]

\* the match <<start, end>> of the compiled pattern p that starts at offset pos
\* itself, or NoMatch; must_advance (set after an empty match) refuses an empty
\* match there
match_at(p, text, pos, must_advance) ==
    IF ~p.nullable /\ (pos >= Len(text) \/ text[pos + 1] \notin p.first) THEN NoMatch
    ELSE LET ends == IF must_advance
                     THEN SelectSeq(Ends(p.re, text, pos), LAMBDA e : e # pos)
                     ELSE Ends(p.re, text, pos)
         IN  IF ends # <<>> THEN <<pos, Head(ends)>> ELSE NoMatch

\* the leftmost match that starts in lo..hi (lo <= hi), or NoMatch; the range is
\* halved so that the evaluation depth stays logarithmic in the text length
RECURSIVE search_in(_, _, _, _, _, _)
search_in(p, text, lo, hi, pos, must_advance) ==
    IF lo = hi THEN match_at(p, text, lo, must_advance /\ lo = pos)
    ELSE LET mid == (lo + hi) \div 2
             left == search_in(p, text, lo, mid, pos, must_advance)
         IN  IF left # NoMatch THEN left
             ELSE search_in(p, text, mid + 1, hi, pos, must_advance)

\* Pattern.search from offset pos: the leftmost match <<start, end>>, or NoMatch
search(p, text, pos, must_advance) ==
    search_in(p, text, pos, Len(text), pos, must_advance)

\* Pattern.finditer: all non-overlapping matches, left to right
RECURSIVE finditer_from(_, _, _, _)
finditer_from(p, text, pos, must_advance) ==
    LET m == search(p, text, pos, must_advance)
    IN  IF m = NoMatch THEN <<>>
        ELSE <<m>> \o finditer_from(p, text, m[2], m[2] = m[1])

finditer(p, text) == finditer_from(p, text, 0, FALSE)

SP ==
    RepFrom(1, In({" ","\t","u00A0"}))

NUM ==
    Alt(<<Cat(<<Rep(1, 3, In(DIGIT)), RepFrom(0, Cat(<<In({".",","}), Rep(3, 3, In(DIGIT))>>))>>),
        RepFrom(1, In(DIGIT))>>)

YEARS ==
    Cat(<<Str(<<"a","n","n">>), Alt(<<Str(<<"i">>), Str(<<"o">>), Str(<<"u","a","l","e">>), Str(<<"u","a","l","i">>)>>)>>)

MONTHS ==
    Cat(<<Str(<<"m","e">>), Alt(<<Str(<<"s","i">>), Str(<<"s","e">>), Str(<<"n","s","i","l","e">>),
        Str(<<"n","s","i","l","i">>)>>)>>)

DAYS ==
    Cat(<<Str(<<"g","i","o","r","n">>), In({"i","o"})>>)

WEEKS ==
    Cat(<<Str(<<"s","e","t","t","i","m","a","n">>), In({"e","a"})>>)

\* DUR with the years as its only unit
DUR_YearsOnly ==
    Cat(<<NUM, Lazy(SP), YEARS>>)

DUR ==
    Cat(<<NUM, Lazy(SP), Alt(<<YEARS, MONTHS, WEEKS, DAYS>>)>>)

EMAIL ==
    Cat(<<RepFrom(1, In(Range_a_z \cup Range_0_9 \cup {".","_","%","+","-"})), Str(<<"@">>), RepFrom(1,
        In(Range_a_z \cup Range_0_9 \cup {".","-"})), Str(<<".">>), RepFrom(2, In(Range_a_z))>>)

\* PHONE with its closing digit run optional
PHONE_AllOptional ==
    Cat(<<Rep(0, 1, Cat(<<Rep(0, 1, Str(<<"+">>)), Rep(1, 3, In(DIGIT)), Rep(0, 1, In({" ","-"}))>>)),
        Rep(0, 1, Cat(<<Rep(0, 1, Str(<<"(">>)), Rep(2, 4, In(DIGIT)), Rep(0, 1, Str(<<")">>)), Rep(0,
        1, In({" ","-"}))>>)), Rep(0, 8, In(DIGIT))>>)

PHONE ==
    Cat(<<Rep(0, 1, Cat(<<Rep(0, 1, Str(<<"+">>)), Rep(1, 3, In(DIGIT)), Rep(0, 1, In({" ","-"}))>>)),
        Rep(0, 1, Cat(<<Rep(0, 1, Str(<<"(">>)), Rep(2, 4, In(DIGIT)), Rep(0, 1, Str(<<")">>)), Rep(0,
        1, In({" ","-"}))>>)), Rep(5, 8, In(DIGIT))>>)

PatternDef(name, regex, description, checklist_ids) ==
    [name |-> name, regex |-> regex, description |-> description,
     checklist_ids |-> checklist_ids]

CATEGORIES == <<
    <<"identity_contacts", <<
        PatternDef("titolare_block",
            Cat(<<Str(<<"t","i","t","o","l","a","r","e">>), SP, Str(<<"d","e","l">>), SP, Str(<<"t","r","a","t","t","a","m","e","n","t","o">>)>>),
            "Menzione del titolare",
            <<"GDPR_13_1_a_titolare">>),
        PatternDef("denominazione_ragione_sociale",
            Alt(<<Cat(<<Str(<<"d","e","n","o","m","i","n","a","z","i","o","n">>), In({"e","a"})>>),
                Cat(<<Str(<<"r","a","g","i","o","n","e">>), SP, Str(<<"s","o","c","i","a","l","e">>)>>),
                Cat(<<Str(<<"s","o","c","i","e","t">>), In({"a","u00E0"})>>), Cat(<<Str(<<"s">>),
                Rep(0, 1, Str(<<".">>)), Str(<<"p">>), Rep(0, 1, Str(<<".">>)), Str(<<"a">>), Rep(0,
                1, Str(<<".">>))>>), Cat(<<Str(<<"s">>), Rep(0, 1, Str(<<".">>)), Str(<<"r">>), Rep(0,
                1, Str(<<".">>)), Str(<<"l">>), Rep(0, 1, Str(<<".">>))>>)>>),
            "Denominazione/ragione sociale",
            <<"GDPR_13_1_a_titolare">>),
        PatternDef("sede_legale",
            Cat(<<Str(<<"s","e","d","e">>), SP, Str(<<"l","e","g","a","l">>), In({"e","a"})>>),
            "Sede legale indicata",
            <<"GDPR_13_1_a_titolare">>),
        PatternDef("indirizzo_postale",
            Cat(<<Alt(<<Str(<<"v","i","a">>), Str(<<"v","i","a","l","e">>), Str(<<"c","o","r","s","o">>),
                Str(<<"p","i","a","z","z","a">>), Str(<<"l","a","r","g","o">>), Str(<<"s","t","r","a","d","a">>)>>),
                RepFrom(1, In(SPACE)), RepFrom(1, In(Range_A_Z \cup Range_a_z \cup Range_u00C0_u00D6 \cup Range_u00D8_u00F6 \cup Range_u00F8_u00FF \cup Range_0_9 \cup {".","-"," "})),
                Str(<<",">>), RepFrom(0, In(SPACE)), Rep(1, 4, In(DIGIT))>>),
            "Indirizzo postale plausibile",
            <<"GDPR_13_1_a_titolare">>),
        PatternDef("email_any",
            EMAIL,
            "Email presente",
            <<"GDPR_13_1_a_titolare", "GDPR_12_1_modalita_esercizio">>),
        PatternDef("pec",
            Alt(<<Cat(<<Bnd, Str(<<"p","e","c">>), Bnd>>), Cat(<<Str(<<"p","o","s","t","a">>), SP,
                Str(<<"e","l","e","t","t","r","o","n","i","c">>), In({"a","e"}), SP, Str(<<"c","e","r","t","i","f","i","c","a","t">>),
                In({"a","e"})>>)>>),
            "PEC presente",
            <<"GDPR_12_1_modalita_esercizio">>),
        PatternDef("telefono",
            PHONE,
            "Numero di telefono plausibile",
            <<"GDPR_13_1_a_titolare">>),
        PatternDef("dpo_kw",
            Alt(<<Cat(<<Str(<<"r","e","s","p","o","n","s","a","b","i","l","e">>), SP, Str(<<"d","e","l","l","a">>),
                SP, Str(<<"p","r","o","t","e","z","i","o","n","e">>), SP, Str(<<"d","e","i">>), SP,
                Str(<<"d","a","t","i">>)>>), Cat(<<Str(<<"d","a","t","a">>), SP, Str(<<"p","r","o","t","e","c","t","i","o","n">>),
                SP, Str(<<"o","f","f","i","c","e","r">>)>>), Str(<<"d","p","o">>)>>),
            "Menzione DPO",
            <<"GDPR_13_1_b_dpo">>),
        PatternDef("dpo_contatto",
            Cat(<<Alt(<<Str(<<"d","p","o">>), Cat(<<Str(<<"d","a","t","a">>), SP, Str(<<"p","r","o","t","e","c","t","i","o","n">>),
                SP, Str(<<"o","f","f","i","c","e","r">>)>>)>>), Rep(0, 40, Dot), EMAIL>>),
            "Contatto email DPO",
            <<"GDPR_13_1_b_dpo">>),
        PatternDef("rappresentante_ue",
            Alt(<<Cat(<<Str(<<"r","a","p","p","r","e","s","e","n","t","a","n","t","e">>), SP, Str(<<"n","e","l","l">>),
                In({"'","a"}), SP, Str(<<"u","n","i","o","n","e">>), SP, Str(<<"e","u","r","o","p","e","a">>)>>),
                Cat(<<Str(<<"a","r","t">>), Rep(0, 1, Str(<<".">>)), SP, Str(<<"2","7">>)>>)>>),
            "Rappresentante UE (art. 27)",
            <<"GDPR_13_1_a_rappresentanteUE">>)
    >> >>,
    <<"purposes_bases", <<
        PatternDef("finalita_kw",
            Cat(<<Bnd, Alt(<<Cat(<<Str(<<"f","i","n","a","l","i","t">>), In({"a","u00E0"})>>), Str(<<"s","c","o","p","i">>),
                Str(<<"p","u","r","p","o","s","e">>)>>), Bnd>>),
            "Parola chiave 'finalitu00E0/scopi'",
            <<"GDPR_13_1_c_finalita">>),
        PatternDef("base_giuridica_kw",
            Alt(<<Cat(<<Str(<<"b","a","s","e">>), SP, Str(<<"g","i","u","r","i","d","i","c">>), In({"a","e"})>>),
                Cat(<<Str(<<"a","i">>), SP, Str(<<"s","e","n","s","i">>), SP, Str(<<"d","e","l","l">>),
                Rep(0, 1, Str(<<"'">>)), Str(<<"a","r","t">>), Rep(0, 1, Str(<<".">>)), SP, Str(<<"6">>)>>)>>),
            "Rinvio allu2019art. 6",
            <<"GDPR_6_1_base_giuridica">>),
        PatternDef("consenso_kw",
            Cat(<<Bnd, Str(<<"c","o","n","s","e","n">>), Alt(<<Cat(<<Str(<<"s">>), In({"o","i"}),
                Bnd>>), Cat(<<Str(<<"t">>), Bnd>>)>>)>>),
            "Base: consenso",
            <<"GDPR_6_1_base_giuridica">>),
        PatternDef("contratto_kw",
            Cat(<<Bnd, Alt(<<Cat(<<Str(<<"c","o","n","t","r","a","t","t">>), RepFrom(1, In(WORD)),
                Bnd>>), Cat(<<Str(<<"n","e","c","e","s","s","a","r","i","o">>), SP, Str(<<"a","l","l">>),
                Rep(0, 1, Str(<<"'">>)), Str(<<"e","s","e","c","u","z","i","o","n","e">>), SP, Str(<<"d","e","l">>),
                SP, Str(<<"c","o","n","t","r","a","t","t","o">>), Bnd>>)>>)>>),
            "Base: contratto",
            <<"GDPR_6_1_base_giuridica">>),
        PatternDef("obbligo_legale_kw",
            Cat(<<Bnd, Str(<<"o","b","b","l","i","g">>), In({"o","i"}), SP, Str(<<"l","e","g","a","l">>),
                In({"e","i"}), Bnd>>),
            "Base: obbligo legale",
            <<"GDPR_6_1_base_giuridica">>),
        PatternDef("interesse_legittimo_kw",
            Alt(<<Cat(<<Str(<<"i","n","t","e","r","e","s","s","e">>), SP, Str(<<"l","e","g","i","t","t","i","m">>),
                In({"o","a"})>>), Cat(<<Str(<<"l","e","g","i","t","i","m","a","t","e">>), SP, Str(<<"i","n","t","e","r","e","s","t">>)>>)>>),
            "Base: interesse legittimo",
            <<"GDPR_13_1_d_interesse_legittimo", "GDPR_6_1_base_giuridica">>),
        PatternDef("pubblico_vitale_kw",
            Alt(<<Cat(<<Str(<<"i","n","t","e","r","e","s","s">>), In({"o","i"}), SP, Str(<<"v","i","t","a","l">>),
                In({"e","i"})>>), Cat(<<Str(<<"c","o","m","p","i","t">>), In({"o","i"}), SP, Str(<<"d","i">>),
                SP, Str(<<"i","n","t","e","r","e","s","s","e">>), SP, Str(<<"p","u","b","b","l","i","c">>),
                In({"o","i"})>>), Cat(<<Str(<<"p","u","b","b","l","i","c">>), In({"o","i"}), SP,
                Str(<<"p","o","t","e","r","i">>)>>)>>),
            "Basi: vitale/pubblico",
            <<"GDPR_6_1_base_giuridica">>),
        PatternDef("dati_particolari_kw",
            Alt(<<Cat(<<Str(<<"c","a","t","e","g","o","r">>), RepFrom(1, In(WORD)), SP, Str(<<"p","a","r","t","i","c","o","l","a","r">>),
                RepFrom(1, In(WORD))>>), Cat(<<Str(<<"d","a","t","i">>), SP, Alt(<<Cat(<<Str(<<"s","e","n","s","i","b","i","l">>),
                In({"i","e"})>>), Cat(<<Str(<<"s","a","n","i","t","a","r">>), In({"i","e"})>>), Cat(<<Str(<<"b","i","o","m","e","t","r","i","c">>),
                In({"i","e"})>>), Cat(<<Str(<<"g","e","n","e","t","i","c">>), In({"i","e"})>>), Cat(<<Str(<<"r","e","l","a","t","i","v","i">>),
                SP, Str(<<"a","l","l","a">>), SP, Str(<<"s","a","l","u","t","e">>)>>), Cat(<<Str(<<"v","i","t","a">>),
                SP, Str(<<"s","e","s","s","u","a","l","e">>)>>), Cat(<<Str(<<"o","r","i","e","n","t","a","m","e","n","t","o">>),
                SP, Str(<<"s","e","s","s","u","a","l","e">>)>>)>>)>>)>>),
            "Dati particolari",
            <<"GDPR_9_2_dati_particolari">>),
        PatternDef("consenso_esplicito_kw",
            Cat(<<Str(<<"c","o","n","s","e","n","s","o">>), SP, Str(<<"e","s","p","l","i","c","i","t">>),
                In({"o","a"})>>),
            "Consenso esplicito (utile per 9(2))",
            <<"GDPR_9_2_dati_particolari">>),
        PatternDef("LIA_bilanciamento_kw",
            Alt(<<Cat(<<Bnd, Str(<<"b","i","l","a","n","c","i","a","m">>), In({"e","o"}), RepFrom(0,
                In(WORD))>>), Cat(<<Str(<<"l","i","a">>), Bnd>>), Cat(<<Str(<<"l","e","g","i","t","i","m","a","t","e">>),
                SP, Str(<<"i","n","t","e","r","e","s","t">>), SP, Str(<<"a","s","s","e","s","s","m","e","n","t">>)>>)>>),
            "Rinvio a bilanciamento (LIA)",
            <<"GDPR_13_1_d_interesse_legittimo">>)
    >> >>,
    <<"categories_origin", <<
        PatternDef("categorie_dati_kw",
            Cat(<<Str(<<"c","a","t","e","g","o","r","i","e">>), SP, Str(<<"d","i">>), SP, Str(<<"d","a","t","i">>)>>),
            "Categorie di dati",
            <<"GDPR_14_1_d_categorie_dati">>),
        PatternDef("origine_dati_kw",
            Cat(<<Alt(<<Str(<<"o","r","i","g","i","n","e">>), Str(<<"p","r","o","v","e","n","i","e","n","z","a">>),
                Str(<<"f","o","n","t","e">>)>>), SP, Str(<<"d","e">>), Rep(0, 1, Str(<<"i">>)), SP,
                Str(<<"d","a","t","i">>)>>),
            "Origine/provenienza dei dati",
            <<"GDPR_14_2_f_origine_dati">>),
        PatternDef("raccolta_da_terzi",
            Cat(<<Str(<<"r","a","c","c","o","l","t">>), In({"o","i"}), SP, Str(<<"d","a">>), SP,
                Str(<<"t","e","r","z">>), In({"i","e"})>>),
            "Raccolta da terzi",
            <<"GDPR_14_1_d_categorie_dati", "GDPR_14_2_f_origine_dati">>)
    >> >>,
    <<"recipients_roles", <<
        PatternDef("destinatari_kw",
            Alt(<<Str(<<"d","e","s","t","i","n","a","t","a","r","i">>), Cat(<<Str(<<"c","a","t","e","g","o","r","i","e">>),
                SP, Str(<<"d","i">>), SP, Str(<<"d","e","s","t","i","n","a","t","a","r","i">>)>>),
                Cat(<<Str(<<"c","o","m","u","n","i","c","a","t">>), Rep(0, 1, Str(<<"i">>)), SP,
                Str(<<"a">>)>>)>>),
            "Destinatari/categorie di destinatari",
            <<"GDPR_13_1_e_destinatari">>),
        PatternDef("responsabile_28_kw",
            Alt(<<Cat(<<Str(<<"r","e","s","p","o","n","s","a","b","i","l","e">>), SP, Str(<<"d","e","l">>),
                SP, Str(<<"t","r","a","t","t","a","m","e","n","t","o">>)>>), Cat(<<Str(<<"a","c","c","o","r","d","o">>),
                SP, Str(<<"e","x">>), SP, Str(<<"a","r","t">>), Rep(0, 1, Str(<<".">>)), SP, Str(<<"2","8">>)>>)>>),
            "Responsabile ex art. 28",
            <<"GDPR_26_28_ruoli">>),
        PatternDef("contitolarita_26_kw",
            Alt(<<Cat(<<Str(<<"c","o","n","t","i","t","o","l","a","r">>), Rep(0, 1, Str(<<"i">>)),
                Rep(0, 1, Cat(<<Str(<<"t">>), In({"a","u00E0"})>>)), SP, Str(<<"d","e","l">>), SP,
                Str(<<"t","r","a","t","t","a","m","e","n","t","o">>)>>), Cat(<<Str(<<"a","c","c","o","r","d","o">>),
                SP, Str(<<"d","i">>), SP, Str(<<"c","o","n","t","i","t","o","l","a","r","i","t">>),
                In({"a","u00E0"})>>), Cat(<<Str(<<"a","r","t">>), Rep(0, 1, Str(<<".">>)), SP, Str(<<"2","6">>)>>)>>),
            "Contitolaritu00E0 art. 26",
            <<"GDPR_26_28_ruoli">>),
        PatternDef("fornitori_cloud_kw",
            Cat(<<Alt(<<Cat(<<Str(<<"f","o","r","n","i","t","o","r">>), In({"e","i"})>>), Str(<<"p","r","o","v","i","d","e","r">>)>>),
                SP, Alt(<<Str(<<"c","l","o","u","d">>), Cat(<<Str(<<"s","e","r","v","i","z">>), In({"i","o"}),
                Str(<<" ","d","i","g","i","t","a","l">>), In({"i","e"})>>)>>)>>),
            "Fornitori/Cloud (spesso responsabili)",
            <<"GDPR_13_1_e_destinatari", "GDPR_26_28_ruoli">>)
    >> >>,
    <<"transfers", <<
        PatternDef("trasferimenti_kw",
            Alt(<<Cat(<<Str(<<"t","r","a","s","f","e","r","i","m","e","n","t">>), In({"i","o"})>>),
                Cat(<<Str(<<"p","a","e","s">>), In({"e","i"}), SP, Str(<<"t","e","r","z">>), In({"i","o"})>>),
                Cat(<<Str(<<"e","x","t","r","a">>), Rep(0, 1, In({"-"," "})), Str(<<"u","e">>)>>),
                Cat(<<Str(<<"a","l">>), SP, Str(<<"d","i">>), SP, Str(<<"f","u","o","r","i">>), SP,
                Str(<<"d","e","l","l">>), In({"'","a"}), SP, Str(<<"u","e">>)>>), Str(<<"s","e","e">>)>>),
            "Trasferimenti verso paesi terzi/extra-UE/SEE",
            <<"GDPR_13_1_f_44_49_trasferimenti_extraUE">>),
        PatternDef("SCC_kw",
            Alt(<<Cat(<<Str(<<"c","l","a","u","s","o","l","e">>), SP, Str(<<"c","o","n","t","r","a","t","t","u","a","l","i">>),
                SP, Str(<<"s","t","a","n","d","a","r","d">>)>>), Cat(<<Str(<<"s","t","a","n","d","a","r","d">>),
                SP, Str(<<"c","o","n","t","r","a","c","t","u","a","l">>), SP, Str(<<"c","l","a","u","s","e","s">>)>>),
                Str(<<"s","c","c">>)>>),
            "Clausole contrattuali standard",
            <<"GDPR_13_1_f_44_49_trasferimenti_extraUE">>),
        PatternDef("adeguatezza_kw",
            Alt(<<Cat(<<Str(<<"d","e","c","i","s","i","o","n","e">>), SP, Str(<<"d","i">>), SP, Str(<<"a","d","e","g","u","a","t","e","z","z","a">>)>>),
                Cat(<<Str(<<"a","d","e","q","u","a","c","y">>), SP, Str(<<"d","e","c","i","s","i","o","n">>)>>)>>),
            "Decisione di adeguatezza",
            <<"GDPR_13_1_f_44_49_trasferimenti_extraUE">>),
        PatternDef("BCR_kw",
            Alt(<<Cat(<<Str(<<"b","i","n","d","i","n","g">>), SP, Str(<<"c","o","r","p","o","r","a","t","e">>),
                SP, Str(<<"r","u","l","e","s">>)>>), Str(<<"b","c","r">>)>>),
            "Binding Corporate Rules",
            <<"GDPR_13_1_f_44_49_trasferimenti_extraUE">>),
        PatternDef("DPF_kw",
            Cat(<<Alt(<<Cat(<<Str(<<"e","u">>), Rep(0, 1, In({"-"," "})), Str(<<"u","s">>)>>), Cat(<<Str(<<"u","e">>),
                Rep(0, 1, In({"-"," "})), Str(<<"u","s","a">>)>>)>>), Rep(0, 20, Dot), Alt(<<Cat(<<Str(<<"d","a","t","a">>),
                SP, Str(<<"p","r","i","v","a","c","y">>), SP, Str(<<"f","r","a","m","e","w","o","r","k">>)>>),
                Str(<<"d","p","f">>)>>)>>),
            "EU-US Data Privacy Framework",
            <<"GDPR_13_1_f_44_49_trasferimenti_extraUE">>),
        PatternDef("USA_kw",
            Alt(<<Cat(<<Bnd, Str(<<"u","s","a">>), Bnd>>), Cat(<<Bnd, Str(<<"s","t","a","t","i">>),
                SP, Str(<<"u","n","i","t">>), In({"i","e"}), Bnd>>), Cat(<<Str(<<"u","n","i","t","e","d">>),
                SP, Str(<<"s","t","a","t","e","s">>)>>)>>),
            "Riferimenti a USA",
            <<"GDPR_13_1_f_44_49_trasferimenti_extraUE">>)
    >> >>,
    <<"retention", <<
        PatternDef("durata_esplicita",
            DUR,
            "Durata esplicita (anni/mesi/settimane/giorni)",
            <<"GDPR_13_2_a_conservazione">>),
        PatternDef("durata_massima",
            Cat(<<Alt(<<Cat(<<Str(<<"n","o","n">>), SP, Str(<<"o","l","t","r","e">>)>>), Cat(<<Str(<<"c","o","m","u","n","q","u","e">>),
                SP, Str(<<"n","o","n">>), SP, Str(<<"o","l","t","r","e">>)>>), Cat(<<Str(<<"p","e","r">>),
                SP, Str(<<"u","n">>), SP, Str(<<"m","a","s","s","i","m","o">>), SP, Str(<<"d","i">>)>>)>>),
                RepFrom(1, In(SPACE)), DUR>>),
            "Durata massima dichiarata",
            <<"GDPR_13_2_a_conservazione">>),
        PatternDef("kw_conservazione",
            Alt(<<Cat(<<Str(<<"c","o","n","s","e","r","v","a","z","i","o","n">>), In({"e","a"})>>),
                Cat(<<Str(<<"d","u","r","a","t">>), In({"a","e"})>>), Str(<<"p","e","r","i","o","d","o">>),
                Str(<<"t","e","r","m","i","n","e">>)>>),
            "Parole chiave conservazione",
            <<"GDPR_13_2_a_conservazione">>),
        PatternDef("vaghezza_tempo_necessario",
            Cat(<<Str(<<"p","e","r">>), SP, Str(<<"i","l">>), SP, Str(<<"t","e","m","p","o">>), SP,
                Rep(0, 1, Cat(<<Str(<<"s","t","r","e","t","t","a","m","e","n","t","e">>), SP>>)),
                Str(<<"n","e","c","e","s","s","a","r","i","o">>)>>),
            "Formula vaga: tempo necessario",
            <<"GDPR_13_2_a_conservazione">>),
        PatternDef("vaghezza_limiti_legge",
            Cat(<<Str(<<"n","e","i">>), SP, Str(<<"l","i","m","i","t","i">>), SP, Alt(<<Str(<<"p","r","e","v","i","s","t","i">>),
                Str(<<"s","t","a","b","i","l","i","t","i">>)>>), SP, Str(<<"d","a","l","l","a">>),
                SP, Str(<<"l","e","g","g","e">>)>>),
            "Formula vaga: limiti di legge",
            <<"GDPR_13_2_a_conservazione">>),
        PatternDef("vaghezza_finalita",
            Cat(<<Str(<<"f","i","n","o">>), SP, Str(<<"a">>), Rep(0, 1, Str(<<"l">>)), SP, Str(<<"r","a","g","g","i","u","n","g","i","m","e","n","t","o">>),
                SP, Str(<<"d","e","l","l">>), Rep(0, 1, Str(<<"e">>)), SP, Str(<<"f","i","n","a","l","i","t">>),
                In({"a","u00E0"})>>),
            "Formula vaga: fino a finalitu00E0",
            <<"GDPR_13_2_a_conservazione">>),
        PatternDef("vaghezza_periodo_necessario",
            Cat(<<Str(<<"p","e","r">>), SP, Str(<<"i","l">>), SP, Str(<<"p","e","r","i","o","d","o">>),
                SP, Str(<<"n","e","c","e","s","s","a","r","i","o">>)>>),
            "Formula vaga: periodo necessario",
            <<"GDPR_13_2_a_conservazione">>),
        PatternDef("vaghezza_tempo_previsto_norma",
            Cat(<<Str(<<"p","e","r">>), SP, Str(<<"i","l">>), SP, Str(<<"t","e","m","p","o">>), SP,
                Str(<<"p","r","e","v","i","s","t","o">>), SP, Str(<<"d","a","l","l","a">>), SP, Alt(<<Str(<<"n","o","r","m","a","t","i","v","a">>),
                Str(<<"l","e","g","g","e">>)>>)>>),
            "Formula vaga: tempo previsto da norma",
            <<"GDPR_13_2_a_conservazione">>),
        PatternDef("vaghezza_ragionevole",
            Cat(<<Str(<<"p","e","r">>), SP, Str(<<"u","n">>), SP, Str(<<"p","e","r","i","o","d","o">>),
                SP, Str(<<"d","i">>), SP, Str(<<"t","e","m","p","o">>), SP, Str(<<"r","a","g","i","o","n","e","v","o","l","e">>)>>),
            "Formula vaga: periodo ragionevole",
            <<"GDPR_13_2_a_conservazione">>),
        PatternDef("fine_conservazione_azioni",
            Alt(<<Cat(<<Str(<<"c","a","n","c","e","l","l","a","z","i","o","n">>), In({"e","a"})>>),
                Cat(<<Str(<<"e","l","i","m","i","n","a","z","i","o","n">>), In({"e","a"})>>), Cat(<<Str(<<"r","i","m","o","z","i","o","n">>),
                In({"e","a"})>>), Cat(<<Str(<<"d","i","s","t","r","u","z","i","o","n">>), In({"e","a"})>>),
                Cat(<<Str(<<"a","n","o","n","i","m","i","z","z","a","z","i","o","n">>), In({"e","a"})>>),
                Cat(<<Str(<<"p","s","e","u","d","o","n","i","m","i","z","z","a","z","i","o","n">>),
                In({"e","a"})>>)>>),
            "Azioni di fine conservazione",
            <<"GDPR_13_2_a_conservazione">>)
    >> >>,
    <<"rights", <<
        PatternDef("diritti_kw",
            Cat(<<Bnd, Str(<<"d","i","r","i","t","t">>), In({"o","i"}), Bnd>>),
            "Sezione diritti",
            <<"GDPR_15_22_diritti">>),
        PatternDef("diritto_accesso",
            Cat(<<Bnd, Str(<<"a","c","c","e","s","s","o">>), Bnd>>),
            "Diritto di accesso",
            <<"GDPR_15_22_diritti">>),
        PatternDef("diritto_rettifica",
            Cat(<<Bnd, Str(<<"r","e","t","t","i","f","i","c","a">>), Bnd>>),
            "Diritto di rettifica",
            <<"GDPR_15_22_diritti">>),
        PatternDef("diritto_cancellazione_oblio",
            Cat(<<Bnd, Alt(<<Str(<<"c","a","n","c","e","l","l","a","z","i","o","n","e">>), Str(<<"o","b","l","i","o">>)>>),
                Bnd>>),
            "Diritto cancellazione/oblio",
            <<"GDPR_15_22_diritti">>),
        PatternDef("diritto_limitazione",
            Cat(<<Bnd, Str(<<"l","i","m","i","t","a","z","i","o","n">>), In({"e","a"}), Bnd>>),
            "Diritto di limitazione",
            <<"GDPR_15_22_diritti">>),
        PatternDef("diritto_portabilita",
            Cat(<<Bnd, Str(<<"p","o","r","t","a","b","i","l","i","t">>), In({"a","u00E0"}), Bnd>>),
            "Diritto alla portabilitu00E0",
            <<"GDPR_15_22_diritti">>),
        PatternDef("diritto_opposizione",
            Cat(<<Bnd, Str(<<"o","p","p","o","s","i","z","i","o","n">>), In({"e","a"}), Bnd>>),
            "Diritto di opposizione",
            <<"GDPR_15_22_diritti">>),
        PatternDef("diritto_revoca_consenso",
            Cat(<<Bnd, Str(<<"r","e","v","o","c">>), Cat(<<Str(<<"a">>), Alt(<<Cat(<<>>), Str(<<"r","e">>),
                Str(<<"b","i","l","e">>)>>)>>), Bnd, RepFrom(0, Dot), Bnd, Str(<<"c","o","n","s","e","n","s">>),
                In({"o","i"}), Bnd>>),
            "Revoca del consenso",
            <<"GDPR_15_22_diritti">>),
        PatternDef("modalita_esercizio_frase",
            Cat(<<Alt(<<Str(<<"c","o","m","e">>), Cat(<<Str(<<"m","o","d","a","l","i","t">>), In({"a","u00E0"})>>),
                Str(<<"m","o","d","o">>)>>), SP, Alt(<<Str(<<"d","i">>), Str(<<"p","e","r">>)>>),
                SP, Str(<<"e","s","e","r","c","i","t">>), RepFrom(1, In(WORD)), SP, Str(<<"i">>),
                SP, Str(<<"d","i","r","i","t","t">>), In({"o","i"})>>),
            "Frase modalitu00E0 di esercizio",
            <<"GDPR_12_1_modalita_esercizio">>),
        PatternDef("canale_email",
            EMAIL,
            "Email contatti/diritti",
            <<"GDPR_12_1_modalita_esercizio", "GDPR_13_1_a_titolare">>),
        PatternDef("canale_pec",
            Alt(<<Cat(<<Bnd, Str(<<"p","e","c">>), Bnd>>), Cat(<<Str(<<"p","o","s","t","a">>), SP,
                Str(<<"e","l","e","t","t","r","o","n","i","c">>), In({"a","e"}), SP, Str(<<"c","e","r","t","i","f","i","c","a","t">>),
                In({"a","e"})>>)>>),
            "PEC",
            <<"GDPR_12_1_modalita_esercizio">>),
        PatternDef("canale_modulo_form",
            Cat(<<Bnd, Alt(<<Cat(<<Str(<<"m","o","d","u","l">>), In({"o","i"})>>), Str(<<"f","o","r","m">>),
                Cat(<<Str(<<"m","o","d","u","l","o">>), SP, Str(<<"o","n","l","i","n","e">>)>>)>>),
                Bnd>>),
            "Modulo/form",
            <<"GDPR_12_1_modalita_esercizio">>),
        PatternDef("canale_postale",
            Alt(<<Cat(<<Str(<<"i","n","d","i","r","i","z","z","o">>), SP, Str(<<"p","o","s","t","a","l","e">>)>>),
                Str(<<"r","a","c","c","o","m","a","n","d","a","t","a">>), Str(<<"l","e","t","t","e","r","a">>)>>),
            "Indirizzo postale",
            <<"GDPR_12_1_modalita_esercizio">>),
        PatternDef("tempo_riscontro",
            Alt(<<Cat(<<Alt(<<Str(<<"3","0">>), Str(<<"t","r","e","n","t","a">>)>>), SP, Str(<<"g","i","o","r","n","i">>)>>),
                Cat(<<Bnd, Str(<<"u","n">>), SP, Str(<<"m","e","s","e">>), Bnd>>)>>),
            "Tempi di riscontro",
            <<"GDPR_12_1_modalita_esercizio">>),
        PatternDef("reclamo_garante_kw",
            Cat(<<Str(<<"g","a","r","a","n","t","e">>), SP, Str(<<"p","e","r">>), SP, Str(<<"l","a">>),
                SP, Str(<<"p","r","o","t","e","z","i","o","n","e">>), SP, Str(<<"d","e","i">>), SP,
                Str(<<"d","a","t","i">>), Rep(0, 1, Cat(<<RepFrom(1, In(SPACE)), Str(<<"p","e","r","s","o","n","a","l","i">>)>>))>>),
            "Reclamo al Garante",
            <<"GDPR_13_2_d_reclamo_garante">>),
        PatternDef("no_decisioni_automatizzate",
            Alt(<<Cat(<<Str(<<"n","o">>), SP, Str(<<"d","e","c","i","s","i","o","n","i">>), SP, Str(<<"a","u","t","o","m","a","t","i","z","z","a","t">>),
                In({"a","e"})>>), Cat(<<Str(<<"a","s","s","e","n","z","a">>), SP, Str(<<"d","i">>),
                SP, Str(<<"p","r","o","c","e","s","s","i">>), SP, Str(<<"a","u","t","o","m","a","t","i","z","z","a","t","i">>)>>)>>),
            "Assenza decisioni automatizzate",
            <<"GDPR_13_2_f_22_profilazione">>),
        PatternDef("profilazione_kw",
            Alt(<<Cat(<<Str(<<"d","e","c","i","s","i","o","n">>), Rep(0, 1, Str(<<"i">>)), SP, Rep(0,
                1, Cat(<<Str(<<"u","n","i","c","a","m","e","n","t","e">>), SP>>)), Str(<<"a","u","t","o","m","a","t","i","z","z","a","t">>),
                In({"a","e"})>>), Cat(<<Str(<<"p","r","o","f","i","l","a","z","i","o","n">>), In({"e","a"})>>),
                Str(<<"s","c","o","r","i","n","g">>)>>),
            "Profilazione/decisioni automatizzate",
            <<"GDPR_13_2_f_22_profilazione">>)
    >> >>,
    <<"cookies", <<
        PatternDef("cookie_kw",
            Alt(<<Cat(<<Bnd, Str(<<"c","o","o","k","i","e">>), Bnd>>), Str(<<"p","i","x","e","l">>),
                Str(<<"t","r","a","c","k","e","r">>), Str(<<"s","d","k">>), Cat(<<Str(<<"t","a","g">>),
                Rep(0, 1, Cat(<<In(SPACE), Str(<<"m","a","n","a","g","e","r">>)>>))>>)>>),
            "Cookie/pixel/tracker",
            <<"GARANTE_2021_cookie_informativa">>),
        PatternDef("cookie_policy_kw",
            Alt(<<Cat(<<Str(<<"c","o","o","k","i","e">>), SP, Str(<<"p","o","l","i","c","y">>)>>),
                Cat(<<Str(<<"i","n","f","o","r","m","a","t","i","v","a">>), SP, Str(<<"c","o","o","k","i","e">>)>>)>>),
            "Pagina/Informativa cookie",
            <<"GARANTE_2021_cookie_informativa">>),
        PatternDef("terze_parti_kw",
            Cat(<<Bnd, Str(<<"t","e","r","z">>), Rep(0, 1, Str(<<"e">>)), SP, Str(<<"p","a","r","t","i">>),
                Bnd>>),
            "Riferimento a terze parti",
            <<"GARANTE_2021_cookie_informativa">>),
        PatternDef("durate_cookie",
            DUR,
            "Durate cookie (generico)",
            <<"GARANTE_2021_cookie_informativa">>),
        PatternDef("tools_google_analytics",
            Alt(<<Cat(<<Str(<<"g","o","o","g","l","e">>), SP, Str(<<"a","n","a","l","y","t","i","c","s">>)>>),
                Str(<<"g","a","4">>)>>),
            "Google Analytics/GA4",
            <<"GARANTE_2021_cookie_informativa">>),
        PatternDef("tools_meta_pixel",
            Cat(<<Alt(<<Str(<<"m","e","t","a">>), Str(<<"f","a","c","e","b","o","o","k">>)>>), SP,
                Str(<<"p","i","x","e","l">>)>>),
            "Meta/Facebook Pixel",
            <<"GARANTE_2021_cookie_informativa">>),
        PatternDef("tools_hotjar",
            Cat(<<Bnd, Str(<<"h","o","t","j","a","r">>), Bnd>>),
            "Hotjar",
            <<"GARANTE_2021_cookie_informativa">>),
        PatternDef("tools_matomo",
            Cat(<<Bnd, Str(<<"m","a","t","o","m","o">>), Bnd>>),
            "Matomo",
            <<"GARANTE_2021_cookie_informativa">>),
        PatternDef("tools_tag_manager",
            Cat(<<Str(<<"t","a","g">>), SP, Str(<<"m","a","n","a","g","e","r">>)>>),
            "Tag Manager",
            <<"GARANTE_2021_cookie_informativa">>),
        PatternDef("tools_consent_mgr",
            Alt(<<Str(<<"c","o","o","k","i","e","b","o","t">>), Str(<<"i","u","b","e","n","d","a">>),
                Str(<<"o","n","e","t","r","u","s","t">>)>>),
            "Consent manager",
            <<"GARANTE_2021_cookie_informativa", "GARANTE_2021_cookie_banner">>),
        PatternDef("banner_kw",
            Cat(<<Bnd, Alt(<<Cat(<<Str(<<"b","a","n","n","e","r">>), Bnd>>), Cat(<<Str(<<"p","o","p">>),
                Rep(0, 1, In({"-"," "})), Str(<<"u","p">>), Bnd>>)>>)>>),
            "Banner cookie",
            <<"GARANTE_2021_cookie_banner">>),
        PatternDef("pulsante_accetta",
            Cat(<<Bnd, Alt(<<Cat(<<Str(<<"a","c","c","e","t","t","a">>), Rep(0, 1, Str(<<"r","e">>)),
                Bnd>>), Cat(<<Str(<<"c","o","n","s","e","n","t","i">>), Bnd>>)>>)>>),
            "Pulsante 'Accetta/Consenti'",
            <<"GARANTE_2021_cookie_banner">>),
        PatternDef("pulsante_rifiuta",
            Cat(<<Bnd, Alt(<<Cat(<<Str(<<"r","i","f","i","u","t","a">>), Rep(0, 1, Str(<<"r","e">>)),
                Bnd>>), Cat(<<Str(<<"n","e","g","a">>), Bnd>>), Cat(<<Str(<<"r","i","f","i","u","t","a">>),
                SP, Str(<<"t","u","t","t","o">>), Bnd>>)>>)>>),
            "Pulsante 'Rifiuta/Nega'",
            <<"GARANTE_2021_cookie_banner">>),
        PatternDef("gestisci_preferenze",
            Cat(<<Alt(<<Cat(<<Str(<<"g","e","s","t","i","s","c">>), In({"i","e"})>>), Cat(<<Str(<<"i","m","p","o","s","t","a","z","i","o","n">>),
                In({"e","i"})>>), Cat(<<Str(<<"p","r","e","f","e","r","e","n","z">>), In({"e","i"})>>)>>),
                SP, Rep(0, 1, Alt(<<Str(<<"d","e","i">>), Str(<<"s","u","i">>)>>)), SP, Str(<<"c","o","o","k","i","e">>)>>),
            "Gestione preferenze",
            <<"GARANTE_2021_cookie_banner">>),
        PatternDef("solo_necessari",
            Cat(<<Alt(<<Str(<<"s","o","l","o">>), Str(<<"a","c","c","e","t","t","a">>)>>), SP, Rep(0,
                1, Str(<<"i">>)), SP, Str(<<"n","e","c","e","s","s","a","r">>), Rep(0, 1, In({"i","e"}))>>),
            "Opzione 'solo necessari'",
            <<"GARANTE_2021_cookie_banner">>),
        PatternDef("categorie_cookie",
            Alt(<<Cat(<<Str(<<"t","e","c","n","i","c">>), In({"i","e"})>>), Cat(<<Str(<<"s","t","a","t","i","s","t","i","c">>),
                In({"h","e"})>>), Str(<<"m","a","r","k","e","t","i","n","g">>), Str(<<"p","r","o","f","i","l","a","z","i","o","n","e">>),
                Str(<<"p","r","e","f","e","r","e","n","z","e">>)>>),
            "Categorie cookie",
            <<"GARANTE_2021_cookie_informativa">>)
    >> >>,
    <<"minors", <<
        PatternDef("minori_kw",
            Alt(<<Cat(<<Bnd, Str(<<"m","i","n","o","r">>), In({"e","i"}), Bnd>>), Cat(<<Bnd, Str(<<"e","t">>),
                In({"a","u00E0"}), Bnd>>), Cat(<<Str(<<"u","n","d","e","r">>), Rep(0, 1, In(SPACE)),
                Rep(1, 2, In(DIGIT))>>)>>),
            "Menzione minori/etu00E0",
            <<"CPI_2_quinquies_minori", "GDPR_12_1_minori_linguaggio">>),
        PatternDef("eta_anni",
            Cat(<<Bnd, Rep(1, 2, In(DIGIT)), SP, Str(<<"a","n","n","i">>), Bnd>>),
            "Etu00E0 indicata (anni)",
            <<"CPI_2_quinquies_minori">>),
        PatternDef("consenso_genitori",
            Alt(<<Cat(<<Str(<<"g","e","n","i","t","o","r">>), In({"i","e"})>>), Cat(<<Str(<<"t","u","t","o","r">>),
                In({"e","i"})>>), Cat(<<Str(<<"r","e","s","p","o","n","s","a","b","i","l","i","t">>),
                In({"a","u00E0"}), SP, Str(<<"g","e","n","i","t","o","r","i","a","l">>), In({"e","a"})>>)>>),
            "Consenso genitori/tutori",
            <<"CPI_2_quinquies_minori">>)
    >> >>,
    <<"special_processing", <<
        PatternDef("profilazione_kw",
            Alt(<<Cat(<<Str(<<"p","r","o","f","i","l","a","z","i","o","n">>), In({"e","a"})>>), Cat(<<Str(<<"d","e","c","i","s","i","o","n">>),
                Rep(0, 1, Str(<<"i">>)), SP, Rep(0, 1, Cat(<<Str(<<"u","n","i","c","a","m","e","n","t","e">>),
                SP>>)), Str(<<"a","u","t","o","m","a","t","i","z","z","a","t">>), In({"a","e"})>>),
                Str(<<"s","c","o","r","i","n","g">>)>>),
            "Profilazione/automatizzate",
            <<"GDPR_13_2_f_22_profilazione">>),
        PatternDef("intervento_umano_kw",
            Alt(<<Cat(<<Str(<<"i","n","t","e","r","v","e","n","t","o">>), SP, Str(<<"u","m","a","n","o">>)>>),
                Cat(<<Str(<<"d","i","r","i","t","t","o">>), SP, Str(<<"d","i">>), SP, Str(<<"c","o","n","t","e","s","t","a","z","i","o","n","e">>)>>),
                Cat(<<Str(<<"s","p","i","e","g","a","z","i","o","n">>), In({"e","i"})>>)>>),
            "Diritti contro decisioni automatizzate",
            <<"GDPR_13_2_f_22_profilazione">>),
        PatternDef("videosorveglianza_kw",
            Alt(<<Cat(<<Str(<<"v","i","d","e","o","s","o","r","v","e","g","l","i","a","n","z">>),
                In({"a","e"})>>), Str(<<"c","c","t","v">>), Cat(<<Str(<<"t","e","l","e","c","a","m","e","r">>),
                In({"a","e"})>>)>>),
            "Videosorveglianza",
            <<"GDPR_13_videosorveglianza">>),
        PatternDef("cartelli_kw",
            Alt(<<Cat(<<Bnd, Str(<<"c","a","r","t","e","l","l">>), In({"o","i"}), Bnd>>), Cat(<<Str(<<"i","n","f","o","r","m","a","z","i","o","n">>),
                In({"e","i"}), SP, Str(<<"s","i","n","t","e","t","i","c">>), In({"h","e"})>>)>>),
            "Cartelli informativi",
            <<"GDPR_13_videosorveglianza">>),
        PatternDef("geolocalizzazione_kw",
            Alt(<<Cat(<<Str(<<"g","e","o","l","o","c","a","l","i","z","z","a","z","i","o","n">>),
                In({"e","a"})>>), Cat(<<Str(<<"p","o","s","i","z","i","o","n">>), In({"e","a"})>>),
                Str(<<"g","p","s">>), Str(<<"g","e","o","f","e","n","c","i","n","g">>), Str(<<"t","r","a","c","k","i","n","g">>)>>),
            "Geolocalizzazione/posizione",
            <<"GDPR_13_geolocalizzazione">>),
        PatternDef("parametri_geo_kw",
            Alt(<<Str(<<"f","r","e","q","u","e","n","z","a">>), Str(<<"a","c","c","u","r","a","t","e","z","z","a">>),
                Str(<<"p","r","e","c","i","s","i","o","n","e">>), Str(<<"i","n","t","e","r","v","a","l","l","i">>),
                Str(<<"s","a","m","p","l","i","n","g">>)>>),
            "Parametri tecnici geoloc.",
            <<"GDPR_13_geolocalizzazione">>)
    >> >>,
    <<"workers_controls", <<
        PatternDef("statuto_kw",
            Alt(<<Cat(<<Str(<<"c","o","n","t","r","o","l","l","i">>), SP, Str(<<"a">>), SP, Str(<<"d","i","s","t","a","n","z","a">>)>>),
                Cat(<<Str(<<"s","t","a","t","u","t","o">>), SP, Str(<<"d","e","i">>), SP, Str(<<"l","a","v","o","r","a","t","o","r","i">>)>>),
                Cat(<<Str(<<"a","r","t">>), Rep(0, 1, Str(<<".">>)), SP, Str(<<"4">>), SP, Str(<<"l">>),
                Rep(0, 1, Str(<<".">>)), SP, Str(<<"3","0","0","/","1","9","7","0">>)>>)>>),
            "Controlli a distanza/statuto",
            <<"STATUTO_4_CPI_114_lavoratori">>),
        PatternDef("accordo_autorizzazione_kw",
            Cat(<<Str(<<"a">>), Alt(<<Cat(<<Str(<<"c","c","o","r","d","o">>), SP, Str(<<"s","i","n","d","a","c","a","l">>),
                In({"e","a"})>>), Cat(<<Str(<<"u","t","o","r","i","z","z","a","z","i","o","n","e">>),
                SP, Str(<<"i","s","p","e","t","t","o","r","a","t","o">>)>>)>>)>>),
            "Accordo sindacale/autorizzazione",
            <<"STATUTO_4_CPI_114_lavoratori">>),
        PatternDef("strumenti_lavoro_kw",
            Alt(<<Cat(<<Str(<<"s","t","r","u","m","e","n","t">>), In({"i","o"}), SP, Str(<<"d","i">>),
                SP, Str(<<"l","a","v","o","r","o">>)>>), Str(<<"b","a","d","g","e">>), Cat(<<Str(<<"d","i","s","p","o","s","i","t","i","v">>),
                In({"i","o"})>>), Cat(<<Str(<<"s","o","f","t","w","a","r","e">>), SP, Str(<<"d","i">>),
                SP, Str(<<"m","o","n","i","t","o","r","a","g","g","i","o">>)>>)>>),
            "Strumenti di controllo",
            <<"STATUTO_4_CPI_114_lavoratori">>)
    >> >>,
    <<"language_accessibility", <<
        PatternDef("linguaggio_chiaro_kw",
            Alt(<<Cat(<<Str(<<"i","n">>), SP, Str(<<"m","o","d","o">>), SP, Str(<<"c","h","i","a","r","o">>)>>),
                Str(<<"t","r","a","s","p","a","r","e","n","t","e">>), Str(<<"i","n","t","e","l","l","i","g","i","b","i","l","e">>),
                Str(<<"s","e","m","p","l","i","c","e">>)>>),
            "Linguaggio chiaro",
            <<"GDPR_12_1_linguaggio", "GARANTE_accessibilita_italiano">>),
        PatternDef("accessibilita_kw",
            Alt(<<Cat(<<Str(<<"a","c","c","e","s","s","i","b","i","l","i","t">>), In({"a","u00E0"})>>),
                Cat(<<Str(<<"l","e","g","g","i","b","i","l","i","t">>), In({"a","u00E0"})>>), Cat(<<Str(<<"u","s","a","b","i","l","i","t">>),
                In({"a","u00E0"})>>), Str(<<"w","c","a","g">>), Str(<<"a","c","c","e","s","s","i","b","i","l","e">>)>>),
            "Accessibilitu00E0/usabilitu00E0",
            <<"GARANTE_accessibilita_italiano">>),
        PatternDef("struttura_aiuto_kw",
            Alt(<<Str(<<"i","n","d","i","c","e">>), Str(<<"s","o","m","m","a","r","i","o">>), Str(<<"t","i","t","o","l","i">>),
                Str(<<"f","a","q">>), Str(<<"g","l","o","s","s","a","r","i","o">>)>>),
            "Strutture di aiuto alla lettura",
            <<"GARANTE_accessibilita_italiano">>),
        PatternDef("linguaggio_minori_kw",
            Alt(<<Cat(<<Alt(<<Str(<<"v","e","r","s","i","o","n","e">>), Str(<<"s","e","z","i","o","n","e">>)>>),
                SP, Str(<<"p","e","r">>), SP, Str(<<"m","i","n","o","r","i">>)>>), Str(<<"i","c","o","n","e">>),
                Cat(<<Str(<<"e","s","e","m","p","i">>), SP, Str(<<"s","e","m","p","l","i","c","i">>)>>)>>),
            "Adattamento per minori",
            <<"GDPR_12_1_minori_linguaggio">>)
    >> >>
    >>

\* a label map with the first label only
CHECKLIST_HINTS_FirstOnly == <<
    <<"GDPR_13_1_a_titolare", "Titolare (identitu00E0/contatti)">>
    >>

CHECKLIST_HINTS == <<
    <<"GDPR_13_1_a_titolare", "Titolare (identitu00E0/contatti)">>,
    <<"GDPR_13_1_a_rappresentanteUE", "Rappresentante UE (art. 27)">>,
    <<"GDPR_13_1_b_dpo", "DPO contatti">>,
    <<"GDPR_13_1_c_finalita", "Finalitu00E0 del trattamento">>,
    <<"GDPR_6_1_base_giuridica", "Base giuridica (art. 6)">>,
    <<"GDPR_9_2_dati_particolari", "Dati particolari (art. 9(2))">>,
    <<"GDPR_13_1_d_interesse_legittimo", "Interesse legittimo specificato">>,
    <<"GDPR_14_1_d_categorie_dati", "Categorie di dati (art. 14(1)(d))">>,
    <<"GDPR_14_2_f_origine_dati", "Origine dei dati (art. 14(2)(f))">>,
    <<"GDPR_13_1_e_destinatari", "Destinatari">>,
    <<"GDPR_26_28_ruoli", "Ruoli privacy (26u201328)">>,
    <<"GDPR_13_1_f_44_49_trasferimenti_extraUE", "Trasferimenti extra-UE">>,
    <<"GDPR_13_2_a_conservazione", "Periodo di conservazione">>,
    <<"GDPR_15_22_diritti", "Diritti interessato">>,
    <<"GDPR_12_1_modalita_esercizio", "Modalitu00E0 di esercizio (art. 12)">>,
    <<"GDPR_13_2_d_reclamo_garante", "Reclamo al Garante">>,
    <<"CPI_2_quinquies_minori", "Consenso minori (14 anni)">>,
    <<"GARANTE_2021_cookie_informativa", "Cookie informativa">>,
    <<"GARANTE_2021_cookie_banner", "Cookie banner & preferenze">>,
    <<"GDPR_13_2_f_22_profilazione", "Profilazione/decisioni automatizzate">>,
    <<"GDPR_13_videosorveglianza", "Videosorveglianza">>,
    <<"GDPR_13_geolocalizzazione", "Geolocalizzazione">>,
    <<"STATUTO_4_CPI_114_lavoratori", "Lavoratori/controlli a distanza">>,
    <<"GDPR_12_1_linguaggio", "Linguaggio chiaro">>,
    <<"GARANTE_accessibilita_italiano", "Italiano/accessibilitu00E0">>,
    <<"GDPR_12_1_minori_linguaggio", "Linguaggio per minori">>
    >>


(***************************************************************************)
(* Compile & scanner                                                       *)
(***************************************************************************)
CompiledPattern(name, compiled, description, checklist_ids) ==
    [name |-> name, compiled |-> compiled, description |-> description,
     checklist_ids |-> checklist_ids]

\* re.compile(d.regex, flags=IGNORECASE | MULTILINE): raises on a malformed expression
CompileRaises(d) == d.regex = Malformed

\* dict lookups over an insertion-ordered dict kept as a sequence of <<key, value>>
Keys(dict) == [i \in 1..Len(dict) |-> dict[i][1]]
HasKey(dict, k) == \E i \in 1..Len(dict) : dict[i][1] = k
IndexOf(dict, k) == CHOOSE i \in 1..Len(dict) : dict[i][1] = k
Elems(seq) == {seq[i] : i \in 1..Len(seq)}

\* Optional[List[str]]: None, or a list of names
None == [none |-> TRUE, items |-> <<>>]
List(items) == [none |-> FALSE, items |-> items]
\* Python truthiness of an Optional[List]: None and [] are both falsy
Truthy(categories) == ~categories.none /\ categories.items # <<>>

ctx == 80

\* str.strip(): drop leading and trailing whitespace
RECURSIVE lstrip(_)
lstrip(s) == IF s # <<>> /\ Head(s) \in SPACE THEN lstrip(Tail(s)) ELSE s
RECURSIVE rstrip(_)
rstrip(s) == IF s # <<>> /\ s[Len(s)] \in SPACE THEN rstrip(SubSeq(s, 1, Len(s) - 1)) ELSE s
strip(s) == rstrip(lstrip(s))

\* text[s:e] for 0 <= s, e <= len(text)
Slice(text, s, e) == SubSeq(text, s + 1, e)

\* re.sub(pattern, repl, s): every match of finditer replaced by repl
RECURSIVE sub_from(_, _, _, _, _)
sub_from(matches, k, repl, s, pos) ==
    IF k > Len(matches) THEN Slice(s, pos, Len(s))
    ELSE Slice(s, pos, matches[k][1]) \o repl \o sub_from(matches, k + 1, repl, s, matches[k][2])
re_sub(p, repl, s) == sub_from(finditer(p, s), 1, repl, s, 0)

Max(a, b) == IF a >= b THEN a ELSE b
Min(a, b) == IF a <= b THEN a ELSE b

\* the compiled r"\s+" of _safe_snippet
WhitespaceRun == re_compile(RepFrom(1, In(SPACE)))

\* _safe_snippet without the strip() of line 284
_safe_snippet_NoStrip(text, start, end) ==
    LET s == Max(0, start - ctx)
        e == Min(Len(text), end + ctx)
    IN  re_sub(WhitespaceRun, <<" ">>, Slice(text, s, e))

\* _safe_snippet without the re.sub() of line 285
_safe_snippet_NoCollapse(text, start, end) ==
    LET s == Max(0, start - ctx)
        e == Min(Len(text), end + ctx)
    IN  strip(Slice(text, s, e))

_safe_snippet(text, start, end) ==
    LET s == Max(0, start - ctx)
        e == Min(Len(text), end + ctx)
        snippet == strip(Slice(text, s, e))
    IN  re_sub(WhitespaceRun, <<" ">>, snippet)

\* a selection that ignores the names listed
Selected_NoFilter(compiled, categories) == compiled

\* a selection that walks the caller's list instead of the catalog
Selected_CallerOrder(compiled, categories) ==
    IF ~Truthy(categories) THEN compiled
    ELSE LET known == SelectSeq(categories.items, LAMBDA n : HasKey(compiled, n))
         IN  [k \in 1..Len(known) |-> compiled[IndexOf(compiled, known[k])]]

\* a selection that falls back to the whole catalog when no listed name is known
Selected_UnknownAsAll(compiled, categories) ==
    LET chosen == SelectSeq(compiled, LAMBDA kv : kv[1] \in Elems(categories.items))
    IN  IF ~Truthy(categories) \/ chosen = <<>> THEN compiled ELSE chosen

\* a selection with the test of line 289 inverted
Selected_InvertedTest(compiled, categories) ==
    IF Truthy(categories) THEN compiled
    ELSE SelectSeq(compiled, LAMBDA kv : kv[1] \in Elems(categories.items))

\* selected = COMPILED if not categories else {k: v for k, v in COMPILED.items() if k in categories}
Selected(compiled, categories) ==
    IF ~Truthy(categories) THEN compiled
    ELSE SelectSeq(compiled, LAMBDA kv : kv[1] \in Elems(categories.items))

\* records whose description is the pattern's name
PatternHits_NameAsDescription(cat, p, text) ==
    LET ms == finditer(p.compiled, text)
    IN  [k \in 1..Len(ms) |->
            [category |-> cat, pattern |-> p.name, start |-> ms[k][1], end |-> ms[k][2],
             snippet |-> _safe_snippet(text, ms[k][1], ms[k][2]),
             checklist_ids |-> p.checklist_ids, description |-> p.name]]

\* the records of one pattern: one per match of finditer, in match order
PatternHits(cat, p, text) ==
    LET ms == finditer(p.compiled, text)
    IN  [k \in 1..Len(ms) |->
            [category |-> cat, pattern |-> p.name, start |-> ms[k][1], end |-> ms[k][2],
             snippet |-> _safe_snippet(text, ms[k][1], ms[k][2]),
             checklist_ids |-> p.checklist_ids, description |-> p.description]]

RECURSIVE CategoryHits(_, _, _, _)
CategoryHits(cat, patterns, k, text) ==
    IF k > Len(patterns) THEN <<>>
    ELSE PatternHits(cat, patterns[k], text) \o CategoryHits(cat, patterns, k + 1, text)

RECURSIVE SelectedHits(_, _, _)
SelectedHits(selected, k, text) ==
    IF k > Len(selected) THEN <<>>
    ELSE CategoryHits(selected[k][1], selected[k][2], 1, text)
         \o SelectedHits(selected, k + 1, text)

\* a scan_text that drops a record whose span an earlier record already has
scan_text_DedupSpans(compiled, text, categories) ==
    LET hits == SelectedHits(Selected(compiled, categories), 1, text)
        kept == {k \in 1..Len(hits) :
                    \A j \in 1..(k - 1) :
                        <<hits[j].start, hits[j].end>> # <<hits[k].start, hits[k].end>>}
        keep(h) == \E k \in kept : hits[k] = h
    IN  SelectSeq(hits, keep)

scan_text(compiled, text, categories) ==
    SelectedHits(Selected(compiled, categories), 1, text)

\* buckets.setdefault(cid, []) on an insertion-ordered dict
setdefault(dict, k) == IF HasKey(dict, k) THEN dict ELSE Append(dict, <<k, <<>>>>)

\* buckets[cid].append(snippet) without the membership test of line 310
AddSnippet_NoDedup(dict, cid, snippet) ==
    LET i == IndexOf(dict, cid)
    IN  [dict EXCEPT ![i] = <<cid, Append(dict[i][2], snippet)>>]

\* if snippet not in buckets[cid]: buckets[cid].append(snippet)
AddSnippet(dict, cid, snippet) ==
    LET i == IndexOf(dict, cid)
    IN  IF snippet \in Elems(dict[i][2]) THEN dict
        ELSE [dict EXCEPT ![i] = <<cid, Append(dict[i][2], snippet)>>]

\* for cid in h["checklist_ids"]: ...
RECURSIVE FoldIds(_, _, _, _)
FoldIds(dict, ids, k, snippet) ==
    IF k > Len(ids) THEN dict
    ELSE FoldIds(AddSnippet(setdefault(dict, ids[k]), ids[k], snippet), ids, k + 1, snippet)

\* for h in hits: ...
RECURSIVE FoldHits(_, _, _)
FoldHits(dict, hits, k) ==
    IF k > Len(hits) THEN dict
    ELSE FoldHits(FoldIds(dict, hits[k].checklist_ids, 1, hits[k].snippet), hits, k + 1)

\* evidence_by_checklist starting from one empty bucket per labelled checklist id
evidence_by_checklist_Seeded(compiled, text) ==
    FoldHits([i \in 1..Len(CHECKLIST_HINTS) |-> <<CHECKLIST_HINTS[i][1], <<>>>>],
             scan_text(compiled, text, None), 1)

evidence_by_checklist(compiled, text) ==
    FoldHits(<<>>, scan_text(compiled, text, None), 1)

(***************************************************************************)
(* The caller (src/main.py)                                                *)
(***************************************************************************)
\* max_items when the caller passes none, and the most characters of a snippet kept
DefaultMaxItems == 40
SnippetLimit == 240

\* key = (h["category"], h["pattern"], h["start"], h["end"])
PackKey(h) == <<h.category, h.pattern, h.start, h.end>>

\* the dict appended to packed for a hit
PackedHint(h) ==
    [category |-> h.category, pattern |-> h.pattern, checklist_ids |-> h.checklist_ids,
     span |-> <<h.start, h.end>>,
     snippet |-> Slice(h.snippet, 0, Min(SnippetLimit, Len(h.snippet)))]

\* for h in hits: skip a key already seen, else append, then break once
\* len(packed) >= max_items
RECURSIVE PackLoop(_, _, _, _, _)
PackLoop(hits, k, seen, packed, max_items) ==
    IF k > Len(hits) THEN packed
    ELSE IF PackKey(hits[k]) \in seen THEN PackLoop(hits, k + 1, seen, packed, max_items)
    ELSE LET appended == Append(packed, PackedHint(hits[k]))
         IN  IF Len(appended) >= max_items THEN appended
             ELSE PackLoop(hits, k + 1, seen \cup {PackKey(hits[k])}, appended, max_items)

\* the list that line 60 serialises with json.dumps
pack_hints_json(compiled, text, max_items) ==
    PackLoop(scan_text(compiled, text, None), 1, {}, <<>>, max_items)

(***************************************************************************)
(* Inputs                                                                  *)
(***************************************************************************)
\* the most fragments a scanned text is made of
MaxFrags == 2

Cancellazione == <<"c","a","n","c","e","l","l","a","z","i","o","n","e">>
Profilazione == <<"P","r","o","f","i","l","a","z","i","o","n","e">>
DieciAnni == <<"1","0"," ","a","n","n","i">>
Email == <<"a","@","b",".","i","t">>
\* ctx + 1 characters no pattern matches, with whitespace at both ends, so that a
\* context window is clipped inside it
Filler == <<" ", "\n">> \o [i \in 1..(ctx - 3) |-> "/"] \o <<"u00A0", "\t">>

\* a further occurrence beyond the context window of whatever precedes it
Distant == Filler \o Email

Fragments == <<Cancellazione, Profilazione, DieciAnni, Email, Distant>>

RECURSIVE TextsUpTo(_)
TextsUpTo(n) ==
    IF n = 0 THEN {<<>>}
    ELSE LET shorter == TextsUpTo(n - 1)
         IN  shorter \cup {t \o Fragments[i] : t \in shorter, i \in 1..Len(Fragments)}

\* "I dati saranno conservati per un massimo di 10 anni e poi cancellazione."
RetentionExample ==
    <<"I"," ","d","a","t","i"," ","s","a","r","a","n","n","o"," ",
      "c","o","n","s","e","r","v","a","t","i"," ","p","e","r"," ","u","n"," ",
      "m","a","s","s","i","m","o"," ","d","i"," ","1","0"," ","a","n","n","i"," ",
      "e"," ","p","o","i"," ">> \o Cancellazione \o <<".">>

Texts == TextsUpTo(MaxFrags) \cup {RetentionExample}

\* the category selections a caller passes to scan_text
Selections ==
    {None, List(<<>>), List(<<"retention">>), List(<<"rights", "retention">>),
     List(<<"retention", "rights">>), List(<<"retention", "retention">>),
     List(<<"nope">>), List(<<"nope", "cookies">>)}

\* texts of the form "per un massimo di <number> <unit>" with an end-of-retention
\* action word before or after: every unit of YEARS, MONTHS, DAYS and WEEKS, every
\* action of fine_conservazione_azioni, numbers of both shapes of NUM, words
\* separated by the whitespace of SP, in lower and in upper case
DurationUnits ==
    <<<<"a","n","n","i">>,
      <<"a","n","n","o">>,
      <<"a","n","n","u","a","l","e">>,
      <<"a","n","n","u","a","l","i">>,
      <<"m","e","s","i">>,
      <<"m","e","s","e">>,
      <<"m","e","n","s","i","l","e">>,
      <<"m","e","n","s","i","l","i">>,
      <<"g","i","o","r","n","i">>,
      <<"g","i","o","r","n","o">>,
      <<"s","e","t","t","i","m","a","n","e">>,
      <<"s","e","t","t","i","m","a","n","a">>>>
ActionWords ==
    <<<<"c","a","n","c","e","l","l","a","z","i","o","n","e">>,
      <<"e","l","i","m","i","n","a","z","i","o","n","e">>,
      <<"r","i","m","o","z","i","o","n","e">>,
      <<"d","i","s","t","r","u","z","i","o","n","e">>,
      <<"a","n","o","n","i","m","i","z","z","a","z","i","o","n","e">>,
      <<"p","s","e","u","d","o","n","i","m","i","z","z","a","z","i","o","n","e">>>>
Numbers == <<<<"1","0">>, <<"5">>, <<"1",".","0","0","0">>, <<"1","0","0","0">>>>
Separators == <<<<" ">>, <<"\t">>, <<"u00A0">>, <<" ","\t">>>>
Upper(s) == [i \in 1..Len(s) |-> upper(s[i])]
MaximumPhrase(sep, num, unit) ==
    <<"p","e","r">> \o sep \o <<"u","n">> \o sep \o <<"m","a","s","s","i","m","o">> \o sep
        \o <<"d","i">> \o sep \o num \o sep \o unit
RetentionText(i) ==
    LET phrase == MaximumPhrase(Separators[((i - 1) % Len(Separators)) + 1],
                                Numbers[(((i - 1) \div 3) % Len(Numbers)) + 1],
                                DurationUnits[i])
        action == ActionWords[((i - 1) % Len(ActionWords)) + 1]
        t == IF i % 2 = 0
             THEN action \o <<" ","e"," ","c","o","m","u","n","q","u","e"," ">> \o phrase \o <<".">>
             ELSE <<"D","a","t","i"," ">> \o phrase \o <<" ","e"," ","p","o","i"," ">> \o action
    IN  IF i % 5 = 0 THEN Upper(t) ELSE t
RetentionTexts == {RetentionText(i) : i \in 1..Len(DurationUnits)}

\* the calls scan_text(t, c) a caller makes
Calls == (Texts \X Selections) \cup (RetentionTexts \X {List(<<"retention">>)})

\* the most calls a caller makes one after the other
MaxCalls == 2

\* the texts and selections of a caller that makes several calls
SessionTexts == {<<>>, Cancellazione \o DieciAnni, RetentionExample}
SessionCalls == SessionTexts \X {None, List(<<"retention">>)}

\* the largest max_items tried besides the default, the values of max_items and the
\* texts handed to pack_hints_json
MaxItems == 2
MaxItemsValues == (0..MaxItems) \cup {DefaultMaxItems}
HintTexts == SessionTexts

\* the threads of a process that calls from several threads, and the calls they make
Threads == {"t1", "t2"}
ThreadCalls ==
    {<<"scan_text", Cancellazione \o DieciAnni, None>>,
     <<"scan_text", Cancellazione \o DieciAnni, List(<<"retention">>)>>,
     <<"scan_text", Profilazione, None>>,
     <<"evidence_by_checklist", Cancellazione \o DieciAnni, None>>}

\* a thread that has not called yet, and the locals of a call not yet made
Idle == [at |-> "idle", call |-> "", text |-> <<>>, categories |-> None,
         selected |-> <<>>, k |-> 0]
NoFrame == [results |-> <<>>, buckets |-> <<>>]

\* CATEGORIES with the expression of definition j of category i malformed
Corrupted(i, j) ==
    [CATEGORIES EXCEPT ![i] = <<CATEGORIES[i][1],
        [CATEGORIES[i][2] EXCEPT ![j] = [CATEGORIES[i][2][j] EXCEPT !.regex = Malformed]]>>]

(***************************************************************************)
(* State: a process that loads the module (line 279 compiles the catalog)  *)
(* and then calls scan_text or evidence_by_checklist on a document.  The    *)
(* load is checked with the declared catalog and with the declared catalog *)
(* having any single expression malformed.                                 *)
(***************************************************************************)
VARIABLES
    pc,          \* "compile" | "aborted" | "ready" | "returned"
    declared,    \* the catalog handed to _compile_categories
    cat_i,       \* _compile_categories: index of the category being compiled
    def_i,       \* _compile_categories: index of the next definition (0: list not yet created)
    compiled,    \* _compile_categories: its local dict `compiled`
    COMPILED,    \* the module global: unbound until line 279 has completed
    call,        \* the function the caller called ("" before the call)
    text,        \* the call's argument text
    categories,  \* scan_text: the argument categories
    results,     \* scan_text: the returned list
    buckets,     \* evidence_by_checklist: the returned dict
    hints,       \* the module global CHECKLIST_HINTS
    compilations,\* how many times line 279 has bound COMPILED
    ncalls,      \* how many calls the caller has made
    log,         \* the calls made so far: <<function, text, categories, value returned>>
    tpc,         \* per thread: its call, the arguments, `selected` and the loop position
    frames,      \* per call frame: the locals `results` and `buckets`
    max_items,   \* pack_hints_json: the argument max_items
    packed       \* pack_hints_json: the list it serialises and returns

vars == <<pc, declared, cat_i, def_i, compiled, COMPILED, call, text, categories,
          results, buckets, hints, compilations, ncalls, log, tpc, frames, max_items,
          packed>>

\* what a sequential caller's calls leave alone, and what the load leaves alone
thread_vars == <<tpc, frames>>
payload_vars == <<max_items, packed>>
process_vars == <<pc, declared, cat_i, def_i, compiled, COMPILED, call, text, categories,
                  results, buckets, hints, compilations, ncalls, log, max_items, packed>>
caller_vars == <<ncalls, log, tpc, frames>>

Unbound == [bound |-> FALSE, cats |-> <<>>]
Bound(cats) == [bound |-> TRUE, cats |-> cats]

Init ==
    /\ pc = "compile"
    /\ \/ declared = CATEGORIES
       \/ \E i \in 1..Len(CATEGORIES) : \E j \in 1..Len(CATEGORIES[i][2]) :
             declared = Corrupted(i, j)
    /\ cat_i = 1
    /\ def_i = 0
    /\ compiled = <<>>
    /\ COMPILED = Unbound
    /\ call = ""
    /\ text = <<>>
    /\ categories = None
    /\ results = <<>>
    /\ buckets = <<>>
    /\ hints = CHECKLIST_HINTS
    /\ compilations = 0
    /\ ncalls = 0
    /\ log = <<>>
    /\ tpc = [t \in Threads |-> Idle]
    /\ frames = [t \in Threads |-> NoFrame]
    /\ max_items = DefaultMaxItems
    /\ packed = <<>>

\* the definition the inner loop of _compile_categories is at
CurrentDef == declared[cat_i][2][def_i]

\* a _compile_categories that fills the module global in place
GlobalWhileCompiling_Shared(global, local) == Bound(local)

\* the module global while _compile_categories runs: the function builds a local
\* dict, so the global stays as it was
GlobalWhileCompiling(global, local) == global

\* the loop indexes after the definition at <<i, j>> has been handled
NextIndex(i, j) ==
    IF j < Len(declared[i][2]) THEN <<i, j + 1>> ELSE <<i + 1, 0>>

\* line 273: compiled[cat] = []
CompileCategory ==
    /\ pc = "compile"
    /\ cat_i <= Len(declared)
    /\ def_i = 0
    /\ compiled' = Append(compiled, <<declared[cat_i][1], <<>>>>)
    /\ cat_i' = NextIndex(cat_i, 0)[1]
    /\ def_i' = NextIndex(cat_i, 0)[2]
    /\ COMPILED' = GlobalWhileCompiling(COMPILED, compiled')
    /\ UNCHANGED <<pc, declared, call, text, categories, results, buckets, hints,
                   compilations>>
    /\ UNCHANGED <<caller_vars, payload_vars>>

\* lines 275-276 with compiled[cat] replaced by the new pattern alone
CompilePattern_KeepsLast ==
    /\ pc = "compile"
    /\ cat_i <= Len(declared)
    /\ def_i >= 1
    /\ ~CompileRaises(CurrentDef)
    /\ LET d == CurrentDef
           c == re_compile(d.regex)
           p == CompiledPattern(d.name, c, d.description, d.checklist_ids)
       IN  compiled' = [compiled EXCEPT ![cat_i] = <<compiled[cat_i][1], <<p>>>>]
    /\ cat_i' = NextIndex(cat_i, def_i)[1]
    /\ def_i' = NextIndex(cat_i, def_i)[2]
    /\ COMPILED' = GlobalWhileCompiling(COMPILED, compiled')
    /\ UNCHANGED <<pc, declared, call, text, categories, results, buckets, hints,
                   compilations>>
    /\ UNCHANGED <<caller_vars, payload_vars>>

\* lines 275-276: compile one definition and append it to compiled[cat]
CompilePattern ==
    /\ pc = "compile"
    /\ cat_i <= Len(declared)
    /\ def_i >= 1
    /\ ~CompileRaises(CurrentDef)
    /\ LET d == CurrentDef
           c == re_compile(d.regex)
           p == CompiledPattern(d.name, c, d.description, d.checklist_ids)
       IN  compiled' = [compiled EXCEPT ![cat_i] = <<compiled[cat_i][1], Append(compiled[cat_i][2], p)>>]
    /\ cat_i' = NextIndex(cat_i, def_i)[1]
    /\ def_i' = NextIndex(cat_i, def_i)[2]
    /\ COMPILED' = GlobalWhileCompiling(COMPILED, compiled')
    /\ UNCHANGED <<pc, declared, call, text, categories, results, buckets, hints,
                   compilations>>
    /\ UNCHANGED <<caller_vars, payload_vars>>

\* line 275 raises re.error: nothing catches it, the module load fails
CompileError ==
    /\ pc = "compile"
    /\ cat_i <= Len(declared)
    /\ def_i >= 1
    /\ CompileRaises(CurrentDef)
    /\ pc' = "aborted"
    /\ UNCHANGED <<declared, cat_i, def_i, compiled, COMPILED, call, text, categories,
                   results, buckets, hints, compilations>>
    /\ UNCHANGED <<caller_vars, payload_vars>>

\* lines 277 and 279: return compiled; COMPILED = ...
CompileReturn ==
    /\ pc = "compile"
    /\ cat_i > Len(declared)
    /\ COMPILED' = Bound(compiled)
    /\ compilations' = compilations + 1
    /\ pc' = "ready"
    /\ UNCHANGED <<declared, cat_i, def_i, compiled, call, text, categories, results, buckets,
                   hints>>
    /\ UNCHANGED <<caller_vars, payload_vars>>

\* a scan_text that consumes the dict it iterates: with categories omitted that
\* dict is COMPILED itself
CallScanText_Consuming(args, limit) ==
    /\ pc \in {"ready", "returned"}
    /\ ncalls < limit
    /\ \E a \in args :
          /\ text' = a[1]
          /\ categories' = a[2]
          /\ results' = scan_text(COMPILED.cats, a[1], a[2])
          /\ log' = Append(log, <<"scan_text", a[1], a[2], results'>>)
          /\ COMPILED' = IF Truthy(a[2]) THEN COMPILED ELSE Bound(<<>>)
    /\ call' = "scan_text"
    /\ ncalls' = ncalls + 1
    /\ pc' = "returned"
    /\ UNCHANGED <<declared, cat_i, def_i, compiled, buckets, hints, compilations>>
    /\ UNCHANGED <<thread_vars, payload_vars>>

\* a scan_text whose dict iteration order changes from one call to the next
CallScanText_Rotating(args, limit) ==
    /\ pc \in {"ready", "returned"}
    /\ ncalls < limit
    /\ \E a \in args :
          LET n == Len(COMPILED.cats)
              cats == IF ncalls % 2 = 0 THEN COMPILED.cats
                      ELSE [k \in 1..n |-> COMPILED.cats[n + 1 - k]]
          IN  /\ text' = a[1]
              /\ categories' = a[2]
              /\ results' = scan_text(cats, a[1], a[2])
              /\ log' = Append(log, <<"scan_text", a[1], a[2], results'>>)
    /\ call' = "scan_text"
    /\ ncalls' = ncalls + 1
    /\ pc' = "returned"
    /\ UNCHANGED <<declared, cat_i, def_i, compiled, COMPILED, buckets, hints, compilations>>
    /\ UNCHANGED <<thread_vars, payload_vars>>

\* a call scan_text(t, c), with <<t, c>> among args, by a caller that makes at most
\* limit calls one after the other
CallScanText(args, limit) ==
    /\ pc \in {"ready", "returned"}
    /\ ncalls < limit
    /\ \E a \in args :
          /\ text' = a[1]
          /\ categories' = a[2]
          /\ results' = scan_text(COMPILED.cats, a[1], a[2])
          /\ log' = Append(log, <<"scan_text", a[1], a[2], results'>>)
    /\ call' = "scan_text"
    /\ ncalls' = ncalls + 1
    /\ pc' = "returned"
    /\ UNCHANGED <<declared, cat_i, def_i, compiled, COMPILED, buckets, hints, compilations>>
    /\ UNCHANGED <<thread_vars, payload_vars>>

\* a call evidence_by_checklist(t), with t among texts
CallEvidenceByChecklist(texts, limit) ==
    /\ pc \in {"ready", "returned"}
    /\ ncalls < limit
    /\ \E t \in texts :
          /\ text' = t
          /\ buckets' = evidence_by_checklist(COMPILED.cats, t)
          /\ log' = Append(log, <<"evidence_by_checklist", t, None, buckets'>>)
    /\ call' = "evidence_by_checklist"
    /\ ncalls' = ncalls + 1
    /\ pc' = "returned"
    /\ UNCHANGED <<declared, cat_i, def_i, compiled, COMPILED, categories, results, hints,
                   compilations>>
    /\ UNCHANGED <<thread_vars, payload_vars>>

\* a process that loads the module and makes one call
ScanText == CallScanText(Calls, 1)
EvidenceByChecklist == CallEvidenceByChecklist(Texts, 1)

Next ==
    \/ CompileCategory
    \/ CompilePattern
    \/ CompileError
    \/ CompileReturn
    \/ ScanText
    \/ EvidenceByChecklist

Spec == Init /\ [][Next]_vars

(***************************************************************************)
(* A process that loads the module and then makes up to MaxCalls calls,    *)
(* one after the other.                                                    *)
(***************************************************************************)
InitSession == Init /\ declared = CATEGORIES

SessionScanText == CallScanText(SessionCalls, MaxCalls)
SessionEvidenceByChecklist == CallEvidenceByChecklist(SessionTexts, MaxCalls)

NextSession ==
    \/ CompileCategory
    \/ CompilePattern
    \/ CompileReturn
    \/ SessionScanText
    \/ SessionEvidenceByChecklist

SpecSession == InitSession /\ [][NextSession]_vars

(***************************************************************************)
(* A caller that also modifies what it was returned.  Line 276 hands the   *)
(* list d.checklist_ids itself to the CompiledPattern and line 299 hands   *)
(* p.checklist_ids itself to every record, so the definition, the compiled *)
(* pattern and all the records of the pattern hold one and the same list.  *)
(***************************************************************************)
\* an id the caller adds
CallerIds == {"X"}

\* the place in the catalog of the pattern a record comes from
DefinitionOf(r) ==
    LET i == IndexOf(COMPILED.cats, r.category)
    IN  <<i, CHOOSE j \in 1..Len(COMPILED.cats[i][2]) : COMPILED.cats[i][2][j].name = r.pattern>>

\* results[k]["checklist_ids"].append(x), on the list scan_text returned last
CallerAppends ==
    /\ pc = "returned"
    /\ call = "scan_text"
    /\ \E k \in 1..Len(results), x \in CallerIds :
          LET at == DefinitionOf(results[k])
              ids == Append(results[k].checklist_ids, x)
          IN  /\ \A i \in 1..Len(declared) : \A j \in 1..Len(declared[i][2]) :
                    x \notin Elems(declared[i][2][j].checklist_ids)
              /\ results' = [n \in 1..Len(results) |->
                                IF DefinitionOf(results[n]) = at
                                THEN [results[n] EXCEPT !.checklist_ids = ids]
                                ELSE results[n]]
              /\ declared' = [declared EXCEPT ![at[1]][2][at[2]].checklist_ids = ids]
              /\ COMPILED' = Bound([COMPILED.cats EXCEPT ![at[1]][2][at[2]].checklist_ids = ids])
    /\ UNCHANGED <<pc, cat_i, def_i, compiled, call, text, categories, buckets, hints,
                   compilations>>
    /\ UNCHANGED <<caller_vars, payload_vars>>

NextCaller ==
    \/ NextSession
    \/ CallerAppends

SpecCaller == InitSession /\ [][NextCaller]_vars

(***************************************************************************)
(* A process that loads the module and then calls from several threads at  *)
(* once.  A thread's call advances one category of `selected` (lines       *)
(* 290-301), then one hit of the fold (lines 307-311), at a time; the      *)
(* threads interleave in any order.                                        *)
(***************************************************************************)
\* the frame holding the locals of thread t's call: `results` (line 288) and
\* `buckets` (line 306) are created by each call
FrameOf_Shared(t) == "t1"

FrameOf(t) == t

\* the call is made: results = [] (line 288) and `selected` (line 289);
\* evidence_by_checklist starts with hits = scan_text(text) (line 305)
ThreadCall(t) ==
    /\ pc = "ready"
    /\ tpc[t].at = "idle"
    /\ \E a \in ThreadCalls :
          tpc' = [tpc EXCEPT ![t] = [at |-> "scanning", call |-> a[1], text |-> a[2],
                                     categories |-> a[3],
                                     selected |-> Selected(COMPILED.cats, a[3]), k |-> 1]]
    /\ frames' = [frames EXCEPT ![FrameOf(t)].results = <<>>]
    /\ UNCHANGED process_vars

\* lines 290-301 for one category of `selected`
ThreadScanCategory(t) ==
    /\ tpc[t].at = "scanning"
    /\ tpc[t].k <= Len(tpc[t].selected)
    /\ LET entry == tpc[t].selected[tpc[t].k]
           hits == CategoryHits(entry[1], entry[2], 1, tpc[t].text)
       IN  frames' = [frames EXCEPT ![FrameOf(t)].results = @ \o hits]
    /\ tpc' = [tpc EXCEPT ![t].k = @ + 1]
    /\ UNCHANGED process_vars

\* line 302: return results; in evidence_by_checklist, buckets = {} (line 306)
ThreadScanReturn(t) ==
    /\ tpc[t].at = "scanning"
    /\ tpc[t].k > Len(tpc[t].selected)
    /\ IF tpc[t].call = "scan_text"
       THEN /\ tpc' = [tpc EXCEPT ![t].at = "done"]
            /\ UNCHANGED frames
       ELSE /\ tpc' = [tpc EXCEPT ![t].at = "folding", ![t].k = 1]
            /\ frames' = [frames EXCEPT ![FrameOf(t)].buckets = <<>>]
    /\ UNCHANGED process_vars

\* lines 308-311 for one hit
ThreadFoldHit(t) ==
    /\ tpc[t].at = "folding"
    /\ tpc[t].k <= Len(frames[FrameOf(t)].results)
    /\ LET h == frames[FrameOf(t)].results[tpc[t].k]
       IN  frames' = [frames EXCEPT ![FrameOf(t)].buckets =
                                        FoldIds(@, h.checklist_ids, 1, h.snippet)]
    /\ tpc' = [tpc EXCEPT ![t].k = @ + 1]
    /\ UNCHANGED process_vars

\* line 312: return buckets
ThreadEvidenceReturn(t) ==
    /\ tpc[t].at = "folding"
    /\ tpc[t].k > Len(frames[FrameOf(t)].results)
    /\ tpc' = [tpc EXCEPT ![t].at = "done"]
    /\ UNCHANGED <<frames, process_vars>>

\* what thread t's call returned
ReturnedTo(t) ==
    IF tpc[t].call = "scan_text" THEN frames[FrameOf(t)].results
    ELSE frames[FrameOf(t)].buckets

NextThreads ==
    \/ CompileCategory
    \/ CompilePattern
    \/ CompileReturn
    \/ \E t \in Threads :
          \/ ThreadCall(t)
          \/ ThreadScanCategory(t)
          \/ ThreadScanReturn(t)
          \/ ThreadFoldHit(t)
          \/ ThreadEvidenceReturn(t)

SpecThreads == InitSession /\ [][NextThreads]_vars

(***************************************************************************)
(* A process that loads the modules and builds the hints payload of a      *)
(* policy text, as analyze_one does.                                       *)
(***************************************************************************)
\* a call pack_hints_json(t, n)
PackHintsJson ==
    /\ pc = "ready"
    /\ \E t \in HintTexts, n \in MaxItemsValues :
          /\ text' = t
          /\ max_items' = n
          /\ packed' = pack_hints_json(COMPILED.cats, t, n)
    /\ call' = "pack_hints_json"
    /\ pc' = "returned"
    /\ UNCHANGED <<declared, cat_i, def_i, compiled, COMPILED, categories, results, buckets,
                   hints, compilations>>
    /\ UNCHANGED caller_vars

NextHints ==
    \/ CompileCategory
    \/ CompilePattern
    \/ CompileReturn
    \/ PackHintsJson

SpecHints == InitSession /\ [][NextHints]_vars

(***************************************************************************)
(* Properties                                                              *)
(***************************************************************************)
Returned(f) == pc = "returned" /\ call = f

\* what scan_text returns for the current text with categories omitted
FullScan == scan_text(COMPILED.cats, text, None)

Selection == Elems(categories.items)

\* C1: scan_text called with the empty category list (not None) returns no record,
\* whatever the text.
C1_EmptySelectionReturnsNothing ==
    (Returned("scan_text") /\ categories = List(<<>>)) => results = <<>>

\* C2: for a non-empty category list S, every returned record has its category in
\* S, and the records returned are exactly those of the full scan whose category
\* is in S, in the same order.
C2_SubsetFilter ==
    (Returned("scan_text") /\ Truthy(categories)) =>
        /\ \A k \in 1..Len(results) : results[k].category \in Selection
        /\ results = SelectSeq(FullScan, LAMBDA r : r.category \in Selection)

C2_Witness ==
    /\ Returned("scan_text")
    /\ Truthy(categories)
    /\ results # <<>>
    /\ Len(results) < Len(FullScan)

\* position of a record's category in the catalog, and of its pattern in the category
CatRank(r) == IndexOf(COMPILED.cats, r.category)
PatRank(r) ==
    LET patterns == COMPILED.cats[CatRank(r)][2]
    IN  CHOOSE j \in 1..Len(patterns) : patterns[j].name = r.pattern
Before(a, b) ==
    \/ CatRank(a) < CatRank(b)
    \/ CatRank(a) = CatRank(b) /\ PatRank(a) < PatRank(b)
    \/ CatRank(a) = CatRank(b) /\ PatRank(a) = PatRank(b) /\ a.start < b.start

\* C3: the records of a scan are ordered by category in catalog order, then by
\* pattern in declaration order, then by ascending start offset; the order (and
\* the result) is the same for every listing of the same category names, whatever
\* their order or repetition in the list.
C3_CatalogOrder ==
    Returned("scan_text") =>
        /\ \A k \in 1..(Len(results) - 1) : Before(results[k], results[k + 1])
        /\ \A c \in Selections :
              (Truthy(c) /\ Truthy(categories) /\ Elems(c.items) = Selection) =>
                  scan_text(COMPILED.cats, text, c) = results

\* a caller lists rights before retention, both match, and a later record starts
\* earlier in the text than the record before it
C3_Witness ==
    /\ Returned("scan_text")
    /\ categories = List(<<"rights", "retention">>)
    /\ \E k \in 1..Len(results) : results[k].category = "rights"
    /\ \E k \in 1..(Len(results) - 1) :
          /\ results[k].category = "retention"
          /\ results[k + 1].start < results[k].start

\* one single-category scan per catalog category from the k-th on, concatenated
RECURSIVE SingleScans(_)
SingleScans(k) ==
    IF k > Len(COMPILED.cats) THEN <<>>
    ELSE scan_text(COMPILED.cats, text, List(<<COMPILED.cats[k][1]>>)) \o SingleScans(k + 1)

\* C4: a scan with categories omitted returns the concatenation, in catalog order,
\* of the single-category scans of every catalog category.
C4_FullScanIsConcatenation ==
    (Returned("scan_text") /\ categories = None) => results = SingleScans(1)

C4_Witness ==
    /\ Returned("scan_text")
    /\ categories = None
    /\ \E j, k \in 1..Len(results) : results[j].category # results[k].category

\* C5: every record satisfies 0 <= start < end <= len(text), and no compiled
\* pattern of the catalog can match the empty string.
C5_SpanValidity ==
    /\ Returned("scan_text") =>
          \A k \in 1..Len(results) :
              /\ 0 <= results[k].start
              /\ results[k].start < results[k].end
              /\ results[k].end <= Len(text)
    /\ COMPILED.bound =>
          \A i \in 1..Len(COMPILED.cats) : \A j \in 1..Len(COMPILED.cats[i][2]) :
              ~COMPILED.cats[i][2][j].compiled.nullable

\* a scan with a match at the very start and a match up to the very end of the text
C5_Witness ==
    /\ Returned("scan_text")
    /\ \E k \in 1..Len(results) : results[k].start = 0
    /\ \E k \in 1..Len(results) : results[k].end = Len(text) /\ results[k].start > ctx

\* the context window of a match, and the snippet as specified: collapse every
\* whitespace run of the window to one space, then trim
Window(t, start, end) == Slice(t, Max(0, start - ctx), Min(Len(t), end + ctx))
CollapseThenTrim(s) == strip(re_sub(WhitespaceRun, <<" ">>, s))

\* C6: every snippet is the context window of its match (ctx characters either
\* side, clipped to the text) with whitespace runs collapsed to one space and
\* then trimmed; trimming before collapsing, as the code does, gives the same.
C6_SnippetIsCollapsedTrimmedWindow ==
    Returned("scan_text") =>
        \A k \in 1..Len(results) :
            results[k].snippet =
                CollapseThenTrim(Window(text, results[k].start, results[k].end))

\* a window clipped on the left, starting with whitespace and holding a run of
\* several whitespace characters
C6_Witness ==
    /\ Returned("scan_text")
    /\ \E k \in 1..Len(results) :
          LET w == Window(text, results[k].start, results[k].end)
          IN  /\ results[k].start > ctx
              /\ Head(w) \in SPACE
              /\ \E i \in 1..(Len(w) - 1) : w[i] \in SPACE /\ w[i + 1] \in SPACE
              /\ results[k].snippet # w

\* C7: a snippet holds no whitespace character but the ordinary space, no two
\* consecutive spaces, no leading or trailing space, and at most
\* 2 * ctx + (end - start) characters.
C7_SnippetBounded ==
    Returned("scan_text") =>
        \A k \in 1..Len(results) :
            LET s == results[k].snippet
            IN  /\ \A i \in 1..Len(s) : s[i] \notin (SPACE \ {" "})
                /\ \A i \in 1..(Len(s) - 1) : ~(s[i] = " " /\ s[i + 1] = " ")
                /\ s # <<>> => (s[1] # " " /\ s[Len(s)] # " ")
                /\ Len(s) <= 2 * ctx + (results[k].end - results[k].start)

\* a window that holds a newline, a tab and a no-break space
C7_Witness ==
    /\ Returned("scan_text")
    /\ \E k \in 1..Len(results) :
          LET w == Window(text, results[k].start, results[k].end)
          IN  /\ "\n" \in Elems(w)
              /\ "\t" \in Elems(w)
              /\ "u00A0" \in Elems(w)
              /\ Len(results[k].snippet) < Len(w)

\* the snippets of the records of hits tagged with cid, in scan order
TaggedSnippets(hits, cid) ==
    LET tagged == SelectSeq(hits, LAMBDA h : cid \in Elems(h.checklist_ids))
    IN  [k \in 1..Len(tagged) |-> tagged[k].snippet]

\* seq[k..] without the elements that occur earlier in seq
RECURSIVE FirstOccurrences(_, _)
FirstOccurrences(seq, k) ==
    IF k > Len(seq) THEN <<>>
    ELSE (IF \E j \in 1..(k - 1) : seq[j] = seq[k] THEN <<>> ELSE <<seq[k]>>)
         \o FirstOccurrences(seq, k + 1)

\* C8: each bucket of evidence_by_checklist is the sequence of snippets of the
\* full-scan records tagged with its id, in scan order, with every later duplicate
\* removed; no bucket holds two equal snippets.
C8_BucketsAreDistinctSnippetsInOrder ==
    Returned("evidence_by_checklist") =>
        LET hits == FullScan
        IN  \A i \in 1..Len(buckets) :
                /\ buckets[i][2] = FirstOccurrences(TaggedSnippets(hits, buckets[i][1]), 1)
                /\ \A j, k \in 1..Len(buckets[i][2]) :
                      j # k => buckets[i][2][j] # buckets[i][2][k]

\* a bucket with two distinct snippets and a duplicate dropped
C8_Witness ==
    /\ Returned("evidence_by_checklist")
    /\ LET hits == FullScan
       IN  \E i \in 1..Len(buckets) :
               /\ Len(buckets[i][2]) >= 2
               /\ Len(TaggedSnippets(hits, buckets[i][1])) > Len(buckets[i][2])

\* C9: the keys of evidence_by_checklist are exactly the checklist ids carried by
\* some record of the full scan, each once, and every bucket is non-empty.
C9_KeysAreMatchedIds ==
    Returned("evidence_by_checklist") =>
        /\ LET hits == FullScan
           IN  Elems(Keys(buckets)) =
                   UNION {Elems(hits[k].checklist_ids) : k \in 1..Len(hits)}
        /\ \A i, j \in 1..Len(buckets) : i # j => buckets[i][1] # buckets[j][1]
        /\ \A i \in 1..Len(buckets) : buckets[i][2] # <<>>

\* some ids are matched and a labelled id is absent from the result
C9_Witness ==
    /\ Returned("evidence_by_checklist")
    /\ buckets # <<>>
    /\ \E i \in 1..Len(CHECKLIST_HINTS) : ~HasKey(buckets, CHECKLIST_HINTS[i][1])

\* what _compile_categories returns for a catalog without malformed expression
CompiledFrom(catalog) ==
    [i \in 1..Len(catalog) |->
        <<catalog[i][1],
          [j \in 1..Len(catalog[i][2]) |->
              LET d == catalog[i][2][j]
              IN  CompiledPattern(d.name, re_compile(d.regex), d.description,
                                  d.checklist_ids)]>>]

HasMalformed(catalog) ==
    \E i \in 1..Len(catalog) : \E j \in 1..Len(catalog[i][2]) :
        CompileRaises(catalog[i][2][j])

\* C10: compilation is all or nothing: COMPILED is bound only to the complete
\* compiled catalog; with a malformed expression the load aborts, COMPILED is
\* never bound (not even to the patterns compiled before it) and no call runs.
C10_CompileAllOrNothing ==
    /\ COMPILED.bound => (~HasMalformed(declared) /\ COMPILED.cats = CompiledFrom(declared))
    /\ pc \in {"ready", "returned"} => COMPILED.bound
    /\ HasMalformed(declared) => (pc \in {"compile", "aborted"} /\ call = "")

\* the load aborted after some patterns had been compiled
C10_Witness ==
    /\ pc = "aborted"
    /\ Len(compiled) > 1
    /\ compiled[1][2] # <<>>
    /\ ~COMPILED.bound

\* the records of results that a pattern of a category produced
RecordsOf(cat, name) ==
    SelectSeq(results, LAMBDA r : r.category = cat /\ r.pattern = name)

\* C15: for a text holding a phrase "per un massimo di <number> <duration unit>"
\* and an end-of-retention action word (the test's sentence among them), the scan
\* of the retention category returns at least one durata_massima record and at
\* least one fine_conservazione_azioni record, and these carry
\* GDPR_13_2_a_conservazione among their checklist ids.
C15_RetentionSignals ==
    (/\ Returned("scan_text")
     /\ categories = List(<<"retention">>)
     /\ text \in RetentionTexts \cup {RetentionExample}) =>
        \A name \in {"durata_massima", "fine_conservazione_azioni"} :
            LET found == RecordsOf("retention", name)
            IN  /\ found # <<>>
                /\ \A k \in 1..Len(found) :
                      "GDPR_13_2_a_conservazione" \in Elems(found[k].checklist_ids)

\* an upper-case phrase in weeks or days, its words separated by tabs
C15_Witness ==
    /\ Returned("scan_text")
    /\ categories = List(<<"retention">>)
    /\ text \in RetentionTexts
    /\ "\t" \in Elems(text)
    /\ "G" \in Elems(text)
    /\ RecordsOf("retention", "durata_massima") # <<>>
    /\ RecordsOf("retention", "fine_conservazione_azioni") # <<>>

\* the names of a selection that are keys of the compiled catalog
KnownNames(c) == SelectSeq(c.items, LAMBDA n : HasKey(COMPILED.cats, n))

\* C16: scan_text returns for every text and every selection; a name that is no key
\* of the catalog contributes no record (a list of unknown names only gives the
\* empty list), and the empty text gives the empty list for every selection.
C16_DegenerateInput ==
    Returned("scan_text") =>
        /\ text = <<>> => results = <<>>
        /\ \A k \in 1..Len(results) : HasKey(COMPILED.cats, results[k].category)
        /\ Truthy(categories) =>
              IF KnownNames(categories) = <<>> THEN results = <<>>
              ELSE results = scan_text(COMPILED.cats, text, List(KnownNames(categories)))

\* a list of one unknown name, on a text the full scan finds records in
C16_Witness ==
    /\ Returned("scan_text")
    /\ categories = List(<<"nope">>)
    /\ results = <<>>
    /\ FullScan # <<>>

\* the checklist ids the definitions of a catalog refer to
ReferencedIds(catalog) ==
    UNION {UNION {Elems(catalog[i][2][j].checklist_ids) : j \in 1..Len(catalog[i][2])} :
               i \in 1..Len(catalog)}

\* C17: every checklist id a pattern definition refers to is a key of the label map
\* CHECKLIST_HINTS; so every id of a returned record and every key of an
\* evidence_by_checklist result has a label.
C17_EveryIdHasLabel ==
    /\ ReferencedIds(declared) \subseteq Elems(Keys(hints))
    /\ Returned("scan_text") =>
          \A k \in 1..Len(results) : \A n \in 1..Len(results[k].checklist_ids) :
              HasKey(hints, results[k].checklist_ids[n])
    /\ Returned("evidence_by_checklist") =>
          \A i \in 1..Len(buckets) : HasKey(hints, buckets[i][1])

\* an evidence result with buckets for several ids
C17_Witness ==
    /\ Returned("evidence_by_checklist")
    /\ Len(buckets) >= 2
    /\ \A i \in 1..Len(buckets) : HasKey(CHECKLIST_HINTS, buckets[i][1])

\* the spans of a sequence of records, and the spans finditer gives for an expression
SpansOf(records) == [k \in 1..Len(records) |-> <<records[k].start, records[k].end>>]
DeclaredSpans(cat, name) ==
    LET defs == declared[IndexOf(declared, cat)][2]
        d == defs[CHOOSE j \in 1..Len(defs) : defs[j].name = name]
    IN  finditer(re_compile(d.regex), text)

\* C18: no declaration is lost: names are unique within each category; the
\* compiled catalog holds, category by category and in declaration order, one
\* compiled pattern per definition, with its name, description, checklist ids and
\* its own expression; profilazione_kw, declared under rights and under
\* special_processing, stays two entries, each scanned with its own expression and
\* reported under its own category.
C18_NoDeclarationLost ==
    /\ \A i \in 1..Len(declared) : \A j, k \in 1..Len(declared[i][2]) :
          j # k => declared[i][2][j].name # declared[i][2][k].name
    /\ COMPILED.bound =>
          /\ Keys(COMPILED.cats) = Keys(declared)
          /\ \A i \in 1..Len(declared) :
                /\ Len(COMPILED.cats[i][2]) = Len(declared[i][2])
                /\ \A j \in 1..Len(declared[i][2]) :
                      LET d == declared[i][2][j]
                          p == COMPILED.cats[i][2][j]
                      IN  /\ p.name = d.name
                          /\ p.description = d.description
                          /\ p.checklist_ids = d.checklist_ids
                          /\ p.compiled = re_compile(d.regex)
    /\ (Returned("scan_text") /\ categories = None) =>
          \A cat \in {"rights", "special_processing"} :
              SpansOf(RecordsOf(cat, "profilazione_kw")) = DeclaredSpans(cat, "profilazione_kw")

\* a full scan reporting profilazione_kw under both of its categories
C18_Witness ==
    /\ Returned("scan_text")
    /\ categories = None
    /\ RecordsOf("rights", "profilazione_kw") # <<>>
    /\ RecordsOf("special_processing", "profilazione_kw") # <<>>
    /\ DeclaredSpans("rights", "profilazione_kw") # <<>>

\* C19: within one scan result the records of one (category, pattern) do not
\* overlap (each ends where or before the next starts), so no two records share
\* (category, pattern, start, end); nothing is removed across patterns: every
\* selected pattern reports every one of its matches, so a span that k patterns
\* match is reported k times.
C19_NoOverlapNoDedup ==
    Returned("scan_text") =>
        /\ \A j, k \in 1..Len(results) :
              (j < k /\ results[j].category = results[k].category
                     /\ results[j].pattern = results[k].pattern) =>
                  results[j].end <= results[k].start
        /\ \A j, k \in 1..Len(results) :
              j # k =>
                  <<results[j].category, results[j].pattern, results[j].start, results[j].end>>
                      # <<results[k].category, results[k].pattern, results[k].start, results[k].end>>
        /\ LET selected == Selected(COMPILED.cats, categories)
           IN  \A i \in 1..Len(selected) : \A n \in 1..Len(selected[i][2]) :
                   SpansOf(RecordsOf(selected[i][1], selected[i][2][n].name))
                       = finditer(selected[i][2][n].compiled, text)

\* one span reported by two patterns, and a pattern with two matches
C19_Witness ==
    /\ Returned("scan_text")
    /\ \E j, k \in 1..Len(results) :
          /\ j # k
          /\ results[j].start = results[k].start /\ results[j].end = results[k].end
          /\ results[j].category # results[k].category
    /\ \E j, k \in 1..Len(results) :
          /\ j < k
          /\ results[j].category = results[k].category
          /\ results[j].pattern = results[k].pattern

\* the definition of the declared catalog a record names by category and pattern
DeclaredFor(r) ==
    LET defs == declared[IndexOf(declared, r.category)][2]
    IN  defs[CHOOSE j \in 1..Len(defs) : defs[j].name = r.pattern]

\* C20: every record has exactly the fields category, pattern, start, end, snippet,
\* checklist_ids and description; its checklist_ids is non-empty and equal, in
\* value and order, to the ids declared for the definition its category and
\* pattern name, and its description is that definition's description.
C20_RecordFields ==
    Returned("scan_text") =>
        \A k \in 1..Len(results) :
            /\ DOMAIN results[k] = {"category", "pattern", "start", "end", "snippet",
                                    "checklist_ids", "description"}
            /\ results[k].checklist_ids # <<>>
            /\ results[k].checklist_ids = DeclaredFor(results[k]).checklist_ids
            /\ results[k].description = DeclaredFor(results[k]).description

\* a record with two checklist ids
C20_Witness ==
    /\ Returned("scan_text")
    /\ \E k \in 1..Len(results) :
          /\ Len(results[k].checklist_ids) >= 2
          /\ results[k].checklist_ids[1] # results[k].checklist_ids[2]

(***************************************************************************)
(* Properties of a caller that makes several calls                         *)
(***************************************************************************)
\* a step taken once the module is loaded leaves the module-level state as it was
ModuleStateKept ==
    pc \in {"ready", "returned"} =>
        /\ declared' = declared
        /\ COMPILED' = COMPILED
        /\ hints' = hints
        /\ compilations' = compilations

\* C11: the catalog is compiled exactly once, and once it is, no call of scan_text
\* or evidence_by_checklist changes the declared catalog, the compiled catalog or
\* the label map, however many calls are made.
C11_CallsLeaveModuleStateAlone ==
    /\ [](compilations = IF COMPILED.bound THEN 1 ELSE 0)
    /\ [][ModuleStateKept]_vars

\* a scan with categories omitted that returned records, then an evidence call that
\* returned buckets
C11_Witness ==
    /\ ncalls >= 2
    /\ log[1][1] = "scan_text" /\ log[1][3] = None /\ log[1][4] # <<>>
    /\ log[2][1] = "evidence_by_checklist" /\ log[2][4] # <<>>
    /\ COMPILED = Bound(compiled)

\* two calls of the same function with the same arguments returned the same value
SameCallSameValue ==
    \A m, n \in 1..Len(log) :
        (log[m][1] = log[n][1] /\ log[m][2] = log[n][2] /\ log[m][3] = log[n][3]) =>
            log[m][4] = log[n][4]

\* C12: the checklist ids of a returned record are a copy: whatever the caller does
\* to a record it was returned, the catalog's definitions stay as declared and a
\* later call with the same arguments returns what it returned before.
C12_ReturnedIdsAreCopies ==
    /\ COMPILED.bound =>
          (declared = CATEGORIES /\ COMPILED.cats = CompiledFrom(CATEGORIES))
    /\ SameCallSameValue

Alone(t) ==
    IF tpc[t].call = "scan_text"
    THEN scan_text(COMPILED.cats, tpc[t].text, tpc[t].categories)
    ELSE evidence_by_checklist(COMPILED.cats, tpc[t].text)

\* C13: once the catalog is compiled, calls of scan_text and evidence_by_checklist
\* running concurrently, interleaved in any order, each return what the same call
\* returns when run alone.
C13_ConcurrentCallsAsAlone ==
    \A t \in Threads : tpc[t].at = "done" => ReturnedTo(t) = Alone(t)

\* a scan returned records while an evidence call, started before the scan ended,
\* was still folding
C13_Witness ==
    \E t, u \in Threads :
        /\ tpc[t].at = "done" /\ tpc[t].call = "scan_text" /\ ReturnedTo(t) # <<>>
        /\ tpc[u].at = "folding" /\ tpc[u].k > 1
        /\ frames[FrameOf(u)].buckets # <<>>

(***************************************************************************)
(* Properties of the hints payload                                         *)
(***************************************************************************)
\* C21: the payload of pack_hints_json holds at most max_items records, for every
\* text and every max_items; they are the leading records of the full scan, in
\* scan order, and no two share (category, pattern, start, end).
C21_PayloadTruncated ==
    Returned("pack_hints_json") =>
        LET hits == FullScan
        IN  /\ Len(packed) <= max_items
            /\ Len(packed) <= Len(hits)
            /\ \A k \in 1..Len(packed) : packed[k] = PackedHint(hits[k])
            /\ \A j, k \in 1..Len(packed) :
                  j # k => <<packed[j].category, packed[j].pattern, packed[j].span>>
                             # <<packed[k].category, packed[k].pattern, packed[k].span>>

\* what the loop does keep: from max_items = 1 on, the payload is the first
\* min(max_items, len) records of the full scan; at max_items = 0 it is the first one
PayloadAsBuilt ==
    Returned("pack_hints_json") =>
        LET hits == FullScan
            kept == IF max_items = 0 THEN Min(1, Len(hits)) ELSE Min(max_items, Len(hits))
        IN  /\ Len(packed) = kept
            /\ \A k \in 1..kept : packed[k] = PackedHint(hits[k])

\* a call with max_items = 0 on a text with hits has returned
ZeroItemsAsked ==
    /\ Returned("pack_hints_json")
    /\ max_items = 0
    /\ Len(FullScan) > 0
====
